---- MODULE Spec2Model ----
(***************************************************************************)
(* Model of the trade feed generator (tools/feed-generator): configuration *)
(* loading, the profile catalog, the amount/price model, the pattern       *)
(* injector, the rate-controlled generation loop of Generator.Run with its *)
(* statistics, the reporting goroutine and the cancellation signal.        *)
(*                                                                         *)
(* Numbers.  Go float64 values are modelled as exact rationals:            *)
(*   - a draw of rand.Float64() is a record [n, d] meaning n/d in [0,1);   *)
(*   - a draw of rand.NormFloat64() is an integer number of standard       *)
(*     deviations;                                                         *)
(*   - ratios and the fraud rate are integers in hundredths (0.20 = 20);   *)
(*   - a profile's Volatility is an integer in tenths (0.2 = 2);           *)
(*   - an amount is an integer (every AvgTradeSize is a multiple of 10, so *)
(*     mean*0.1 and mean*Volatility*z are whole);                          *)
(*   - a price is a record [cents, factors] meaning cents times the        *)
(*     product of the rational factors, in cents: the table price and the  *)
(*     jitter factors applied to it, in order;                             *)
(*   - a time is an integer number of units of 100 microseconds;           *)
(*   - the cumulative volume (uint64 cents) is a little-endian sequence of *)
(*     base-1000 digits, because one trade's notional exceeds 2^31 cents.  *)
(* The uuid of a trade is not modelled: no operation reads it.             *)
(***************************************************************************)
EXTENDS Integers, Sequences, FiniteSets, TLC

(***************************************************************************)
(* Rationals                                                               *)
(***************************************************************************)
\* the one element of a singleton set; an intermediate result bound as the element
\* of a singleton set is computed once, however often it is read
The(S) == CHOOSE r \in S : TRUE

RECURSIVE Gcd(_, _)
Gcd(a, b) == IF b = 0 THEN a ELSE Gcd(b, a % b)

Abs(x) == IF x < 0 THEN -x ELSE x

Rat(n, d) == [n |-> n, d |-> d]

Reduce(q) ==
  LET g == Gcd(Abs(q.n), q.d) IN IF g = 0 THEN q ELSE Rat(q.n \div g, q.d \div g)

RatLess(p, q) == p.n * q.d < q.n * p.d

RatLeq(p, q) == p.n * q.d <= q.n * p.d

\* p * q, cancelling across before multiplying
RatMul(p, q) ==
  LET a == Reduce(Rat(p.n, q.d))
      b == Reduce(Rat(q.n, p.d))
  IN  Reduce(Rat(a.n * b.n, a.d * b.d))

RECURSIVE RatProduct(_)
RatProduct(fs) == IF fs = << >> THEN Rat(1, 1) ELSE RatMul(Head(fs), RatProduct(Tail(fs)))

\* a perturbation of twice the width: 1 + (u - 0.5) * 2c
JitterOfTwice(u, c) == Reduce(Rat(u.d * c.d + (2 * u.n - u.d) * c.n, u.d * c.d))

\* 1 + (u - 0.5) * c, the jitter factor every price perturbation uses
Jitter(u, c) == Reduce(Rat(2 * u.d * c.d + (2 * u.n - u.d) * c.n, 2 * u.d * c.d))

\* rand.Intn(n) of a raw draw
Intn(raw, n) == raw % n

(***************************************************************************)
(* Time                                                                    *)
(***************************************************************************)
Second == 10000

Minute == 60 * Second

Hour == 60 * Minute

Day == 24 * Hour

\* time.Date(y, m, d of t, hour, min, sec, 0, loc)
DateOnDayOf(t, hour, min, sec) == (t - (t % Day)) + hour * Hour + min * Minute + sec * Second

(***************************************************************************)
(* Profile catalog (profiles.go)                                           *)
(***************************************************************************)
HFTTrader == "HFT"

RegularTrader == "REGULAR"

CasualTrader == "CASUAL"

FraudTrader == "FRAUD"

NoFraud == "NONE"

WashTrade == "WASH"

VelocitySpike == "VELOCITY"

Anomaly == "ANOMALY"

AllFraud == "ALL"

BlueChipSymbols == <<"AAPL", "MSFT", "GOOGL", "AMZN", "META", "NVDA", "TSLA">>

PopularSymbols == <<"AAPL", "TSLA", "AMZN", "NVDA", "SPY", "QQQ">>

ETFSymbols == <<"SPY", "QQQ", "VTI", "IWM", "DIA">>

PennyStocks == <<"PENNY_A", "PENNY_B", "PENNY_C", "MICRO_X", "MICRO_Y">>

Profile(id, type, symbols, size, vol, pattern) ==
  [UserID |-> id, Type |-> type, TypicalSymbols |-> symbols, AvgTradeSize |-> size,
   Volatility |-> vol, FraudPattern |-> pattern]

GetDefaultProfiles ==
  << Profile("HFT_001", HFTTrader, BlueChipSymbols, 75000, 2, NoFraud),
     Profile("HFT_002", HFTTrader, <<"TSLA", "NVDA", "META", "AMZN">>, 100000, 3, NoFraud),
     Profile("HFT_003", HFTTrader, BlueChipSymbols, 50000, 2, NoFraud),
     Profile("USER_001", RegularTrader, SubSeq(PopularSymbols, 1, 4), 5000, 5, NoFraud),
     Profile("USER_002", RegularTrader, <<"AAPL", "MSFT", "GOOGL">>, 7500, 4, NoFraud),
     Profile("USER_003", RegularTrader, PopularSymbols, 4000, 6, NoFraud),
     Profile("USER_004", RegularTrader, <<"TSLA", "NVDA", "AMD">>, 6000, 5, NoFraud),
     Profile("USER_005", RegularTrader, SubSeq(PopularSymbols, 1, 3), 5500, 4, NoFraud),
     Profile("USER_006", RegularTrader, SubSeq(BlueChipSymbols, 1, 4), 8000, 3, NoFraud),
     Profile("USER_007", RegularTrader, PopularSymbols, 4500, 5, NoFraud),
     Profile("CASUAL_001", CasualTrader, SubSeq(ETFSymbols, 1, 2), 1000, 3, NoFraud),
     Profile("FRAUD_WASH_001", FraudTrader, PennyStocks, 10000, 1, WashTrade),
     Profile("FRAUD_VELOCITY_001", FraudTrader, SubSeq(PopularSymbols, 1, 3), 5000, 2,
             VelocitySpike),
     Profile("FRAUD_ANOMALY_001", FraudTrader, SubSeq(BlueChipSymbols, 1, 3), 3000, 4,
             Anomaly) >>

NilProfile == [UserID |-> "", Type |-> "nil", TypicalSymbols |-> << >>, AvgTradeSize |-> 0,
               Volatility |-> 0, FraudPattern |-> NoFraud]

\* a selection that returns no profile when the bucket of the draw is empty
SelectProfileOfBucket(profiles, hftRatio, regularRatio, casualRatio, r, raw) ==
  LET OfType(t) == SelectSeq(profiles, LAMBDA p : p.Type = t)
      hftProfiles == OfType(HFTTrader)
      regularProfiles == OfType(RegularTrader)
      casualProfiles == OfType(CasualTrader)
      Pick(s) == s[Intn(raw, Len(s)) + 1]
  IN  IF RatLess(r, Rat(hftRatio, 100))
        THEN (IF Len(hftProfiles) > 0 THEN Pick(hftProfiles) ELSE NilProfile)
      ELSE IF RatLess(r, Rat(hftRatio + regularRatio, 100))
        THEN (IF Len(regularProfiles) > 0 THEN Pick(regularProfiles) ELSE NilProfile)
      ELSE (IF Len(casualProfiles) > 0 THEN Pick(casualProfiles) ELSE NilProfile)

\* a selection whose thresholds are inclusive
SelectProfileInclusive(profiles, hftRatio, regularRatio, casualRatio, r, raw) ==
  LET OfType(t) == SelectSeq(profiles, LAMBDA p : p.Type = t)
      hftProfiles == OfType(HFTTrader)
      regularProfiles == OfType(RegularTrader)
      casualProfiles == OfType(CasualTrader)
      Pick(s) == s[Intn(raw, Len(s)) + 1]
      Fallback == IF Len(profiles) > 0 THEN Pick(profiles) ELSE NilProfile
  IN  IF RatLeq(r, Rat(hftRatio, 100))
        THEN (IF Len(hftProfiles) > 0 THEN Pick(hftProfiles) ELSE Fallback)
      ELSE IF RatLeq(r, Rat(hftRatio + regularRatio, 100))
        THEN (IF Len(regularProfiles) > 0 THEN Pick(regularProfiles) ELSE Fallback)
      ELSE (IF Len(casualProfiles) > 0 THEN Pick(casualProfiles) ELSE Fallback)

\* SelectProfile: r is the Float64 draw, raw the Intn draw of the branch taken
SelectProfile(profiles, hftRatio, regularRatio, casualRatio, r, raw) ==
  LET OfType(t) == SelectSeq(profiles, LAMBDA p : p.Type = t)
      hftProfiles == OfType(HFTTrader)
      regularProfiles == OfType(RegularTrader)
      casualProfiles == OfType(CasualTrader)
      Pick(s) == s[Intn(raw, Len(s)) + 1]
      Fallback == IF Len(profiles) > 0 THEN Pick(profiles) ELSE NilProfile
  IN  IF RatLess(r, Rat(hftRatio, 100))
        THEN (IF Len(hftProfiles) > 0 THEN Pick(hftProfiles) ELSE Fallback)
      ELSE IF RatLess(r, Rat(hftRatio + regularRatio, 100))
        THEN (IF Len(regularProfiles) > 0 THEN Pick(regularProfiles) ELSE Fallback)
      ELSE (IF Len(casualProfiles) > 0 THEN Pick(casualProfiles) ELSE Fallback)

\* a selection by pattern alone, whatever the category
SelectProfileOfPattern(profiles, fraudType, raw) ==
  LET fraudProfiles ==
        SelectSeq(profiles, LAMBDA p : fraudType = AllFraud \/ p.FraudPattern = fraudType)
  IN  IF Len(fraudProfiles) > 0 THEN fraudProfiles[Intn(raw, Len(fraudProfiles)) + 1]
      ELSE NilProfile

\* a selection that ignores the fraud-type filter: what C9 rests on
SelectAnyFraudProfile(profiles, fraudType, raw) ==
  LET fraudProfiles == SelectSeq(profiles, LAMBDA p : p.Type = FraudTrader)
  IN  IF Len(fraudProfiles) > 0 THEN fraudProfiles[Intn(raw, Len(fraudProfiles)) + 1]
      ELSE NilProfile

SelectFraudProfile(profiles, fraudType, raw) ==
  LET fraudProfiles ==
        SelectSeq(profiles,
                  LAMBDA p : p.Type = FraudTrader
                             /\ (fraudType = AllFraud \/ p.FraudPattern = fraudType))
  IN  IF Len(fraudProfiles) > 0 THEN fraudProfiles[Intn(raw, Len(fraudProfiles)) + 1]
      ELSE NilProfile

\* TraderProfile.GetRandomSymbol: u decides typical/exploration, raw picks the index
GetRandomSymbol(p, u, raw) ==
  LET allSymbols == BlueChipSymbols \o PopularSymbols \o ETFSymbols
  IN  IF Len(p.TypicalSymbols) = 0 THEN "AAPL"
      ELSE IF RatLess(u, Rat(8, 10))
        THEN p.TypicalSymbols[Intn(raw, Len(p.TypicalSymbols)) + 1]
      ELSE allSymbols[Intn(raw, Len(allSymbols)) + 1]

(***************************************************************************)
(* Amount/price model and pattern injector (patterns.go)                   *)
(***************************************************************************)
TradeTypeBuy == "BUY"

TradeTypeSell == "SELL"

\* getSymbolPrices, in cents
symbolPrices ==
  [AAPL |-> 17550, MSFT |-> 37825, GOOGL |-> 14075, AMZN |-> 15535, META |-> 36280,
   NVDA |-> 49520, TSLA |-> 24280, AMD |-> 14230, NFLX |-> 48560, DIS |-> 9540,
   SPY |-> 47520, QQQ |-> 40580, VTI |-> 24530, IWM |-> 19850, DIA |-> 38240,
   PENNY_A |-> 250, PENNY_B |-> 180, PENNY_C |-> 320, MICRO_X |-> 85, MICRO_Y |-> 125]

\* the price of an unknown symbol, in cents (100.0)
DefaultPriceCents == 10000

Price(cents, fs) == [cents |-> cents, factors |-> fs]

\* price * f for a rational factor f
ScalePrice(p, f) == Price(p.cents, Append(p.factors, f))

ZeroPrice == Price(0, << >>)

\* price > 0 (every factor has a positive denominator)
PricePositive(p) == p.cents > 0 /\ \A i \in 1..Len(p.factors) : p.factors[i].n > 0

\* a clamp that forgets the lower bound: what C1 rests on
ClampAmountAbove(amount, minAmount, maxAmount) ==
  IF amount > maxAmount THEN maxAmount ELSE amount

\* the clamp of GenerateAmount
ClampAmount(amount, minAmount, maxAmount) ==
  LET low == IF amount < minAmount THEN minAmount ELSE amount
  IN  IF low > maxAmount THEN maxAmount ELSE low

\* an amount that is not clamped
GenerateAmountUnclamped(profile, z) ==
  LET mean == profile.AvgTradeSize
  IN  mean + (z * mean * profile.Volatility) \div 10

\* GenerateAmount: z is the NormFloat64 draw
GenerateAmount(profile, z) ==
  LET mean == profile.AvgTradeSize
      amount == mean + (z * mean * profile.Volatility) \div 10
  IN  ClampAmount(amount, mean \div 10, mean * 3)

\* GetPrice: u is the Float64 draw of the +-1% variation
GetPrice(symbol, u) ==
  LET basePrice == IF symbol \in DOMAIN symbolPrices THEN symbolPrices[symbol]
                   ELSE DefaultPriceCents
  IN  Price(basePrice, <<Jitter(u, Rat(2, 100))>>)

RandomTradeType(u) == IF RatLess(u, Rat(1, 2)) THEN TradeTypeBuy ELSE TradeTypeSell

Trade(user, symbol, amount, price, type, timestamp) ==
  [UserID |-> user, Symbol |-> symbol, Amount |-> amount, Price |-> price, Type |-> type,
   Timestamp |-> timestamp]

\* Generator.generateTrade (generator.go); d holds the draws in call order
generateTrade(profile, timestamp, d) ==
  LET symbol == GetRandomSymbol(profile, d.symU, d.symRaw)
  IN  Trade(profile.UserID, symbol, GenerateAmount(profile, d.z), GetPrice(symbol, d.priceU),
            RandomTradeType(d.sideU), timestamp)

\* the price of the sell leg of a wash pair
WashSellPrice(price, u) == ScalePrice(price, Jitter(u, Rat(1, 1000)))

\* a sell leg 0 to 3 seconds after the buy leg: what C8 rests on
WashSellTimeFromZero(baseTime, raw) == baseTime + Intn(raw, 4) * Second

\* the time of the sell leg of a wash pair
WashSellTime(baseTime, raw) == baseTime + (1 + Intn(raw, 4)) * Second

InjectWashTrade(profile, baseTime, d) ==
  LET symbol == GetRandomSymbol(profile, d.symU, d.symRaw)
      amount == GenerateAmount(profile, d.z)
      price == GetPrice(symbol, d.priceU)
  IN  << Trade(profile.UserID, symbol, amount, price, TradeTypeBuy, baseTime),
         Trade(profile.UserID, symbol, amount, WashSellPrice(price, d.sellU), TradeTypeSell,
               WashSellTime(baseTime, d.gapRaw)) >>

\* a burst length drawn from twelve values
VelocityCountOfTwelve(raw) == 10 + Intn(raw, 12)

\* the number of trades of a velocity burst
VelocityCount(raw) == 10 + Intn(raw, 11)

\* InjectVelocitySpike; d.iter[i] holds the draws of iteration i of the loop
InjectVelocitySpike(profile, baseTime, d) ==
  LET numTrades == VelocityCount(d.nRaw)
      symbol == GetRandomSymbol(profile, d.symU, d.symRaw)
      basePrice == GetPrice(symbol, d.priceU)
  IN  [k \in 1..numTrades |->
         LET i == k - 1
         IN  Trade(profile.UserID, symbol, GenerateAmount(profile, d.iter[i].z),
                   ScalePrice(basePrice, Jitter(d.iter[i].u, Rat(2, 100))),
                   RandomTradeType(d.iter[i].sideU), baseTime + i * Second)]

\* rand.Float64()*5 + 0.5 dollars, as a price
PennyPrice(u) == Price(50, <<Reduce(Rat(10 * u.n + u.d, u.d))>>)

\* an anomaly whose size variant keeps the drawn amount
InjectAnomalyOfDrawnSize(profile, baseTime, d) ==
  LET anomalyType == Intn(d.typeRaw, 4)
      symbol == GetRandomSymbol(profile, d.symU, d.symRaw)
      trade == Trade(profile.UserID, symbol, GenerateAmount(profile, d.z), ZeroPrice,
                     RandomTradeType(d.sideU), baseTime)
  IN  CASE anomalyType = 0 ->
             [trade EXCEPT !.Price = GetPrice(symbol, d.priceU)]
        [] anomalyType = 1 ->
             [trade EXCEPT !.Timestamp = DateOnDayOf(baseTime, 2 + Intn(d.hourRaw, 4),
                                                     Intn(d.minRaw, 60), Intn(d.secRaw, 60)),
                           !.Price = GetPrice(symbol, d.priceU)]
        [] anomalyType = 2 ->
             [trade EXCEPT !.Symbol = PennyStocks[Intn(d.pennyRaw, Len(PennyStocks)) + 1],
                           !.Price = PennyPrice(d.pennyU)]
        [] anomalyType = 3 ->
             [trade EXCEPT !.Price = ScalePrice(GetPrice(symbol, d.priceU),
                                                Jitter(d.devU, Rat(1, 2)))]
        [] OTHER -> trade

\* InjectAnomaly: the trade built first, then the variant's changes
InjectAnomaly(profile, baseTime, d) ==
  LET anomalyType == Intn(d.typeRaw, 4)
      symbol == GetRandomSymbol(profile, d.symU, d.symRaw)
      trade == Trade(profile.UserID, symbol, GenerateAmount(profile, d.z), ZeroPrice,
                     RandomTradeType(d.sideU), baseTime)
  IN  CASE anomalyType = 0 ->
             [trade EXCEPT !.Amount = profile.AvgTradeSize * 10,
                           !.Price = GetPrice(symbol, d.priceU)]
        [] anomalyType = 1 ->
             [trade EXCEPT !.Timestamp = DateOnDayOf(baseTime, 2 + Intn(d.hourRaw, 4),
                                                     Intn(d.minRaw, 60), Intn(d.secRaw, 60)),
                           !.Price = GetPrice(symbol, d.priceU)]
        [] anomalyType = 2 ->
             [trade EXCEPT !.Symbol = PennyStocks[Intn(d.pennyRaw, Len(PennyStocks)) + 1],
                           !.Price = PennyPrice(d.pennyU)]
        [] anomalyType = 3 ->
             [trade EXCEPT !.Price = ScalePrice(GetPrice(symbol, d.priceU),
                                                Jitter(d.devU, Rat(1, 2)))]
        [] OTHER -> trade

(***************************************************************************)
(* Unsigned integers beyond 2^31: little-endian base-1000 digits           *)
(***************************************************************************)
RECURSIVE BigOf(_)
BigOf(x) == IF x = 0 THEN << >> ELSE <<x % 1000>> \o BigOf(x \div 1000)

RECURSIVE BigMulCarry(_, _, _)
BigMulCarry(a, m, carry) ==
  IF a = << >> THEN BigOf(carry)
  ELSE LET v == Head(a) * m + carry
       IN  <<v % 1000>> \o BigMulCarry(Tail(a), m, v \div 1000)

RECURSIVE BigTrim(_)
BigTrim(a) ==
  IF a = << >> THEN a
  ELSE IF a[Len(a)] = 0 THEN BigTrim(SubSeq(a, 1, Len(a) - 1)) ELSE a

\* a * m for a small m
BigMul(a, m) == The({BigTrim(p) : p \in {BigMulCarry(x, m, 0) : x \in {a}}})

\* <<quotient digits, remainder>> of a \div m, from the top digit down
RECURSIVE BigDivRem(_, _)
BigDivRem(a, m) ==
  IF a = << >> THEN << << >>, 0 >>
  ELSE The({ << <<(hi[2] * 1000 + Head(a)) \div m>> \o hi[1],
                 (hi[2] * 1000 + Head(a)) % m >> : hi \in {BigDivRem(Tail(a), m)} })

\* floor(a / m) for a small m
BigDiv(a, m) == The({BigTrim(q) : q \in {BigDivRem(x, m)[1] : x \in {a}}})

RECURSIVE BigAddCarry(_, _, _)
BigAddCarry(a, b, carry) ==
  IF a = << >> /\ b = << >> THEN BigOf(carry)
  ELSE LET x == IF a = << >> THEN 0 ELSE Head(a)
           y == IF b = << >> THEN 0 ELSE Head(b)
           v == x + y + carry
       IN  <<v % 1000>> \o
           BigAddCarry(IF a = << >> THEN a ELSE Tail(a), IF b = << >> THEN b ELSE Tail(b),
                       v \div 1000)

BigAdd(a, b) == The({BigAddCarry(x[1], x[2], 0) : x \in {<<a, b>>}})

\* a < b, for numbers without leading zero digits
RECURSIVE BigLess(_, _)
BigLess(a, b) ==
  IF Len(a) # Len(b) THEN Len(a) < Len(b)
  ELSE IF a = << >> THEN FALSE
  ELSE IF a[Len(a)] # b[Len(b)] THEN a[Len(a)] < b[Len(b)]
  ELSE BigLess(SubSeq(a, 1, Len(a) - 1), SubSeq(b, 1, Len(b) - 1))

\* the digits of a - b - borrow, for a >= b + borrow
RECURSIVE BigSubBorrow(_, _, _)
BigSubBorrow(a, b, borrow) ==
  IF a = << >> THEN << >>
  ELSE LET y == IF b = << >> THEN 0 ELSE Head(b)
           v == Head(a) - y - borrow
       IN  <<(v + 1000) % 1000>> \o
           BigSubBorrow(Tail(a), IF b = << >> THEN b ELSE Tail(b), IF v < 0 THEN 1 ELSE 0)

BigSub(a, b) == The({BigTrim(d) : d \in {BigSubBorrow(x[1], x[2], 0) : x \in {<<a, b>>}}})

\* 2^64 = 18 446 744 073 709 551 616
TwoTo64 == <<616, 551, 709, 73, 744, 446, 18>>

\* an addition that does not wrap
UInt64AddUnbounded(a, b) == BigAdd(a, b)

\* atomic.Uint64.Add: the sum modulo 2^64
UInt64Add(a, b) ==
  The({ IF BigLess(sum, TwoTo64) THEN sum ELSE BigSub(sum, TwoTo64) :
          sum \in {BigAdd(a, b)} })

RECURSIVE BigMulAll(_, _)
BigMulAll(a, fs) == IF fs = << >> THEN a ELSE BigMulAll(BigMul(a, Head(fs).n), Tail(fs))

\* floor(floor(a / d1) / d2) = floor(a / (d1 * d2))
RECURSIVE BigDivAll(_, _)
BigDivAll(a, fs) == IF fs = << >> THEN a ELSE BigDivAll(BigDiv(a, Head(fs).d), Tail(fs))

\* a volume computed from the price cut to whole cents
VolumeCentsOfWholeCents(trade) ==
  BigMul(BigDivAll(BigMulAll(BigOf(trade.Price.cents), trade.Price.factors),
                   trade.Price.factors),
         trade.Amount)

\* uint64(trade.Amount * trade.Price * 100): amount * cents * factors, truncated
VolumeCents(trade) ==
  BigDivAll(BigMulAll(BigMul(BigOf(trade.Amount), trade.Price.cents), trade.Price.factors),
            trade.Price.factors)

(***************************************************************************)
(* Configuration (config.go)                                               *)
(***************************************************************************)
DefaultTPS == 100

DefaultDuration == 5 * Minute

DefaultStatsInterval == 10 * Second

\* the values viper hands to LoadConfig
RawConfig(tps, duration, rate, type, statsInterval, hft, regular, casual) ==
  [TPS |-> tps, Duration |-> duration, FraudRate |-> rate, FraudType |-> type,
   StatsInterval |-> statsInterval, HFTRatio |-> hft, RegularRatio |-> regular, CasualRatio |-> casual]

\* LoadConfig, "Set defaults if not specified"
SetDefaults(raw) ==
  [TPS |-> IF raw.TPS = 0 THEN DefaultTPS ELSE raw.TPS,
   Duration |-> IF raw.Duration = 0 THEN DefaultDuration ELSE raw.Duration,
   FraudRate |-> raw.FraudRate,
   FraudType |-> IF raw.FraudType = "" THEN "ALL" ELSE raw.FraudType,
   StatsInterval |-> IF raw.StatsInterval = 0 THEN DefaultStatsInterval
                     ELSE raw.StatsInterval,
   HFTRatio |-> IF raw.HFTRatio = 0 THEN 20 ELSE raw.HFTRatio,
   RegularRatio |-> IF raw.RegularRatio = 0 THEN 70 ELSE raw.RegularRatio,
   CasualRatio |-> IF raw.CasualRatio = 0 THEN 10 ELSE raw.CasualRatio]

\* a validation of the two ranges that leaves the ratios alone
ValidateRanges(c) ==
  /\ ~(c.TPS < 1 \/ c.TPS > 10000)
  /\ ~(c.FraudRate < 0 \/ c.FraudRate > 100)

\* Config.Validate: TRUE when it returns nil
Validate(c) ==
  LET sum == c.HFTRatio + c.RegularRatio + c.CasualRatio
  IN  /\ ~(c.TPS < 1 \/ c.TPS > 10000)
      /\ ~(c.FraudRate < 0 \/ c.FraudRate > 100)
      /\ ~(sum < 99 \/ sum > 101)

(***************************************************************************)
(* Statistics (generator.go)                                               *)
(***************************************************************************)
\* NewGenerator's Statistics: zero counters, empty maps
NewStatistics(startTime) ==
  [TotalTrades |-> 0, FraudPatterns |-> 0, VolumeGenerated |-> << >>,
   ByProfile |-> [t \in {} |-> 0], BySymbol |-> [t \in {} |-> 0], StartTime |-> startTime]

\* counters for the three ordinary categories only: what C7 rests on
InitOrdinaryCounters(stats, profiles) ==
  [stats EXCEPT !.ByProfile = [t \in {HFTTrader, RegularTrader, CasualTrader} |-> 0]]

\* Run, "Initialize profile counters"
InitProfileCounters(stats, profiles) ==
  [stats EXCEPT !.ByProfile = [t \in {profiles[i].Type : i \in 1..Len(profiles)} |-> 0]]

\* updateStats, first statement: TotalTrades.Add(1)
AddTotal(stats) == [stats EXCEPT !.TotalTrades = @ + 1]

\* a fraud counter that counts a fraudulent trade twice
AddFraudTwice(stats, isFraud) ==
  IF isFraud THEN [stats EXCEPT !.FraudPatterns = @ + 2] ELSE stats

\* updateStats, the fraud counter
AddFraud(stats, isFraud) ==
  IF isFraud THEN [stats EXCEPT !.FraudPatterns = @ + 1] ELSE stats

\* updateStats, the per-category counter: only an existing counter is incremented
AddByProfile(stats, profile) ==
  IF profile.Type \in DOMAIN stats.ByProfile
    THEN [stats EXCEPT !.ByProfile[profile.Type] = @ + 1]
  ELSE stats

\* updateStats, the per-symbol counter, created on first sight
AddBySymbol(stats, symbol) ==
  LET seen == IF symbol \in DOMAIN stats.BySymbol THEN stats.BySymbol[symbol] ELSE 0
  IN  [stats EXCEPT !.BySymbol =
         [t \in DOMAIN stats.BySymbol \cup {symbol} |->
            IF t = symbol THEN seen + 1 ELSE stats.BySymbol[t]]]

\* updateStats after TotalTrades.Add(1)
AddRest(stats, trade, profile, isFraud) ==
  LET WithVolume(a) == [a EXCEPT !.VolumeGenerated = UInt64Add(@, VolumeCents(trade))]
  IN  The({ AddBySymbol(c, trade.Symbol) :
              c \in { AddByProfile(b, profile) :
                        b \in {WithVolume(AddFraud(stats, isFraud))} } })

updateStats(stats, trade, profile, isFraud) == AddRest(AddTotal(stats), trade, profile, isFraud)

RECURSIVE SumOver(_, _)
SumOver(f, dom) ==
  IF dom = {} THEN 0 ELSE LET t == CHOOSE x \in dom : TRUE IN f[t] + SumOver(f, dom \ {t})

\* the sum of the per-category counters
SumByProfile(stats) == SumOver(stats.ByProfile, DOMAIN stats.ByProfile)

(***************************************************************************)
(* One tick's generation (generator.go): what is to be published, for      *)
(* which profile, with which fraud tag; err is the early error return      *)
(***************************************************************************)
Plan(ts, profile, isFraud, err) ==
  [trades |-> ts, profile |-> profile, isFraud |-> isFraud, err |-> err]

\* a normal branch whose trade is recorded as fraud
generateNormalTradeAsFraud(profiles, c, t, d) ==
  LET profile == SelectProfile(profiles, c.HFTRatio, c.RegularRatio, c.CasualRatio,
                               d.profR, d.profRaw)
  IN  IF profile = NilProfile THEN Plan(<< >>, NilProfile, FALSE, TRUE)
      ELSE Plan(<<generateTrade(profile, t, d)>>, profile, TRUE, FALSE)

\* generateNormalTrade up to the publish call
generateNormalTrade(profiles, c, t, d) ==
  LET profile == SelectProfile(profiles, c.HFTRatio, c.RegularRatio, c.CasualRatio,
                               d.profR, d.profRaw)
  IN  IF profile = NilProfile THEN Plan(<< >>, NilProfile, FALSE, TRUE)
      ELSE Plan(<<generateTrade(profile, t, d)>>, profile, FALSE, FALSE)

\* a parse that ignores the case of the three names
ParseFraudTypeFolded(name) ==
  CASE name \in {"WASH", "wash", "Wash"} -> WashTrade
    [] name \in {"VELOCITY", "velocity", "Velocity"} -> VelocitySpike
    [] name \in {"ANOMALY", "anomaly", "Anomaly"} -> Anomaly
    [] OTHER -> AllFraud

\* generateFraudPattern, "Parse fraud type"
ParseFraudType(name) ==
  CASE name = "WASH" -> WashTrade
    [] name = "VELOCITY" -> VelocitySpike
    [] name = "ANOMALY" -> Anomaly
    [] OTHER -> AllFraud

\* a fraud branch that fails when no fraud profile is selected
generateFraudPatternOrFail(profiles, c, t, d) ==
  LET profile == SelectFraudProfile(profiles, ParseFraudType(c.FraudType), d.fraudRaw)
  IN  IF profile = NilProfile THEN Plan(<< >>, NilProfile, FALSE, TRUE)
      ELSE CASE profile.FraudPattern = WashTrade ->
                  Plan(InjectWashTrade(profile, t, d), profile, TRUE, FALSE)
             [] profile.FraudPattern = VelocitySpike ->
                  Plan(InjectVelocitySpike(profile, t, d), profile, TRUE, FALSE)
             [] profile.FraudPattern = Anomaly ->
                  Plan(<<InjectAnomaly(profile, t, d)>>, profile, TRUE, FALSE)
             [] OTHER -> generateNormalTrade(profiles, c, t, d)

\* generateFraudPattern up to the publish loop
generateFraudPattern(profiles, c, t, d) ==
  LET profile == SelectFraudProfile(profiles, ParseFraudType(c.FraudType), d.fraudRaw)
  IN  IF profile = NilProfile THEN generateNormalTrade(profiles, c, t, d)
      ELSE CASE profile.FraudPattern = WashTrade ->
                  Plan(InjectWashTrade(profile, t, d), profile, TRUE, FALSE)
             [] profile.FraudPattern = VelocitySpike ->
                  Plan(InjectVelocitySpike(profile, t, d), profile, TRUE, FALSE)
             [] profile.FraudPattern = Anomaly ->
                  Plan(<<InjectAnomaly(profile, t, d)>>, profile, TRUE, FALSE)
             [] OTHER -> generateNormalTrade(profiles, c, t, d)

\* a branch decision with <= in place of <: what C10 rests on
TakesFraudBranchInclusive(u, fraudRate) == RatLeq(u, Rat(fraudRate, 100))

\* generateAndPublish, "Decide if this should be a fraud pattern"
TakesFraudBranch(u, fraudRate) == RatLess(u, Rat(fraudRate, 100))

generateAndPublish(profiles, c, t, d) ==
  IF TakesFraudBranch(d.fraudU, c.FraudRate) THEN generateFraudPattern(profiles, c, t, d)
  ELSE generateNormalTrade(profiles, c, t, d)

(***************************************************************************)
(* Bounds and the values the random source, the clock and viper supply     *)
(***************************************************************************)
\* the number of ticks the ticker delivers in a run
MaxTicks == 2

\* the reports begun after cancellation are counted up to this number
MaxLateWakes == 2

\* the number of trades recorded on top of a Statistics value
MaxRecorded == 2

\* a run whose deadline falls within this many tick periods is followed to its
\* deadline, one draw per tick
MaxRunTicks == 22

\* a ticker of period one second whatever the TPS: what C11 rests on
TickIntervalOfOne(c) == Second

\* time.Second / time.Duration(TPS)
TickInterval(c) == Second \div c.TPS

\* the tick periods that fit in the configured duration
RunTicks(c) == c.Duration \div TickInterval(c)

\* the run is followed to its deadline
FollowedToDeadline(c) == c.Duration > 0 /\ RunTicks(c) > MaxTicks /\ RunTicks(c) < MaxRunTicks

\* the ticks the ticker delivers before the deadline has passed
TickBudget(c) ==
  IF c.Duration > 0 /\ RunTicks(c) >= MaxTicks /\ RunTicks(c) < MaxRunTicks
    THEN RunTicks(c) + 1
    ELSE MaxTicks

RandFloats == {Rat(0, 1), Rat(1, 2), Rat(19, 20)}

RandNorms == {-20, 0, 20}

\* iteration i of a burst draws the i-th values of a rotation started at offset o
Tape(o) ==
  LET zs == <<-20, 0, 20>>
      us == <<Rat(0, 1), Rat(1, 2), Rat(19, 20)>>
  IN  [i \in 0..20 |-> [z |-> zs[((i + o) % 3) + 1], u |-> us[((i + 2 * o) % 3) + 1],
                        sideU |-> us[(i % 3) + 1]]]

NoDraws ==
  [fraudU |-> Rat(0, 1), fraudRaw |-> 0, profR |-> Rat(0, 1), profRaw |-> 0,
   symU |-> Rat(0, 1), symRaw |-> 0, z |-> 0, priceU |-> Rat(1, 2), sideU |-> Rat(0, 1),
   sellU |-> Rat(1, 2), gapRaw |-> 0, nRaw |-> 0, iter |-> Tape(0), typeRaw |-> 0,
   hourRaw |-> 0, minRaw |-> 0, secRaw |-> 0, pennyRaw |-> 0, pennyU |-> Rat(0, 1),
   devU |-> Rat(1, 2)]

\* the draws of a tick of the generation loop: every choice the loop makes is drawn
\* (branch, category, typical or other symbol, side, pattern, variant, burst length,
\* gap), the sizes and jitters are drawn from one or two values
EngineFloats == RandFloats

EngineNorms == {0}

EngineJitters == {Rat(0, 1)}

EngineNormalDraws ==
  { [NoDraws EXCEPT !.profR = x[1], !.symU = x[2], !.z = x[3], !.priceU = x[4],
                    !.sideU = x[5]] :
      x \in EngineFloats \X {Rat(0, 1), Rat(19, 20)} \X EngineNorms \X EngineJitters
            \X {Rat(0, 1), Rat(1, 2)} }

EngineWashDraws ==
  { [NoDraws EXCEPT !.z = x[1], !.priceU = x[2], !.sellU = x[3], !.gapRaw = x[4]] :
      x \in EngineNorms \X EngineJitters \X {Rat(0, 1)} \X {0, 3} }

EngineVelocityDraws ==
  { [NoDraws EXCEPT !.nRaw = x[1], !.priceU = x[2]] : x \in {0} \X EngineJitters }

EngineAnomalyDraws ==
  { [NoDraws EXCEPT !.typeRaw = x[1], !.z = x[2], !.priceU = x[3], !.hourRaw = 3,
                    !.minRaw = 59, !.secRaw = 59, !.pennyRaw = 4, !.pennyU = Rat(19, 20),
                    !.devU = x[4]] :
      x \in (0..3) \X EngineNorms \X EngineJitters \X {Rat(0, 1)} }

\* the draws the pattern of a selected profile consumes
EnginePatternDraws(profile) ==
  CASE profile.FraudPattern = WashTrade -> EngineWashDraws
    [] profile.FraudPattern = VelocitySpike -> EngineVelocityDraws
    [] profile.FraudPattern = Anomaly -> EngineAnomalyDraws
    [] OTHER -> EngineNormalDraws

\* the draws that pick the fraud profile: with every pattern allowed they pick the
\* wash trader and the anomaly trader, the bursts being left to the run that allows
\* bursts only
EngineFraudRaws == {0, 2}

\* the draws a tick can make, given the draw that decides the branch
EngineDraws(profiles, c, fraudU) ==
  IF TakesFraudBranch(fraudU, c.FraudRate)
    THEN UNION { { [d EXCEPT !.fraudU = fraudU, !.fraudRaw = k] :
                     d \in EnginePatternDraws(
                             SelectFraudProfile(profiles, ParseFraudType(c.FraudType), k)) } :
                 k \in EngineFraudRaws }
  ELSE IF FollowedToDeadline(c) THEN { [NoDraws EXCEPT !.fraudU = fraudU] }
  ELSE { [d EXCEPT !.fraudU = fraudU] : d \in EngineNormalDraws }

\* what viper can hand to LoadConfig
RawConfigs ==
  { RawConfig(0, 0, 5, "", 0, 0, 0, 0),
    RawConfig(1, 1 * Second, 0, "ALL", 0, 20, 70, 10),
    RawConfig(1, 0, 100, "WASH", 1 * Second, 0, 0, 0),
    RawConfig(1, -1 * Second, 100, "VELOCITY", 0, 20, 70, 10),
    RawConfig(10001, 0, 5, "ALL", 0, 0, 0, 0),
    RawConfig(100, 0, 150, "ALL", 0, 0, 0, 0),
    RawConfig(100, 0, 5, "ALL", 0, 50, 50, 0),
    RawConfig(-1, 0, 5, "ALL", 0, 20, 70, 10),
    RawConfig(100, 0, -10, "ALL", 0, 20, 70, 10),
    RawConfig(100, 0, 5, "ALL", 0, 30, 30, 30) }

\* runs of fraud only whose fraud type is a name of the switch, a name in another
\* case, a misspelt name and an unknown name; one of them with out-of-range ratios
FilterConfigs ==
  { RawConfig(1, 0, 100, "ANOMALY", 1 * Second, 20, 70, 10),
    RawConfig(1, 0, 100, "wash", 1 * Second, 20, 70, 10),
    RawConfig(1, 1 * Second, 100, "VELOCTY", 0, 20, 70, 10),
    RawConfig(1, 0, 100, "SPOOFING", 0, 20, 70, 10),
    RawConfig(1, 0, 100, "Anomaly", 0, 30, 30, 30) }

\* the end-to-end run of 20 ticks: tps = 10, duration = 2 s, no fraud, one report due
RunConfigs == { RawConfig(10, 2 * Second, 0, "ALL", 2 * Second, 20, 70, 10) }

\* the time of day at which the process starts
StartTimes == {10 * Hour}

(***************************************************************************)
(* State                                                                   *)
(***************************************************************************)
VARIABLES
  raw,          \* the values viper holds
  cfg,          \* the Config LoadConfig built
  pc,           \* where the main goroutine is (runGenerate, then Generator.Run)
  now,          \* the clock
  deadline,     \* Run's deadline; NoDeadline is the zero time
  cancelled,    \* ctx.Done() is closed
  tickPending,  \* a tick waits in ticker.C (a channel of capacity 1)
  ticks,        \* ticks delivered so far
  trades,       \* the trades generated by the current tick
  pubIdx,       \* how many of them were handed to PublishTradeToStream
  tickErr,      \* the current tick is returning an error
  tickProfile,  \* the profile of the current tick
  tickFraud,    \* the isFraud argument of the current tick's updateStats calls
  stats,        \* Generator.stats
  rep,          \* the reportStats goroutine: its position and the counters it loaded
  hist          \* history: what the sink and the terminal have seen

vars ==
  << raw, cfg, pc, now, deadline, cancelled, tickPending, ticks, trades, pubIdx, tickErr,
     tickProfile, tickFraud, stats, rep, hist >>

NoDeadline == 0

NoConfig == SetDefaults(RawConfig(0, 0, 0, "", 0, 0, 0, 0))

\* the positions of the main goroutine inside the loop of Run
LoopPcs == {"select", "publish", "updateStats", "updateRest"}

\* the states of the engine (section 4.4 of the specification), read off pc
EngineStateOf(p) ==
  CASE p \in {"LoadConfig", "NewRedisClient", "Ping", "NewGenerator", "Run"} -> "Idle"
    [] p \in LoopPcs -> "Running"
    [] p = "printFinalStats" -> "Draining"
    [] p \in {"returned", "exited"} -> "Stopped"
    [] OTHER -> "Aborted"

EngineState == EngineStateOf(pc)

\* !deadline.IsZero() && time.Now().After(deadline)
DeadlinePassed == deadline # NoDeadline /\ now > deadline

NoHistory ==
  [published |-> 0, failed |-> 0, finalReports |-> 0, prevTickFailed |-> FALSE,
   total0 |-> 0, fraud0 |-> 0, lateLine |-> FALSE, cancelledAtTick |-> FALSE,
   processed |-> 0, probes |-> 0, anomalyType |-> -1,
   call |-> [op |-> "none"], wakesAfterCancel |-> 0, recorded |-> 0, volumeSum |-> << >>]

\* the process starts with one of the given configurations
Start(configs) ==
  /\ raw \in configs
  /\ cfg = NoConfig
  /\ pc = "LoadConfig"
  /\ now \in StartTimes
  /\ deadline = NoDeadline
  /\ cancelled = FALSE
  /\ tickPending = FALSE
  /\ ticks = 0
  /\ trades = << >>
  /\ pubIdx = 0
  /\ tickErr = FALSE
  /\ tickProfile = NilProfile
  /\ tickFraud = FALSE
  /\ stats = NewStatistics(0)
  /\ rep = [pc |-> "off", next |-> 0, total |-> 0, fraud |-> 0]
  /\ hist = NoHistory

Init == Start(RawConfigs)

InitRun == Start(RunConfigs)

InitFilter == Start(FilterConfigs)

(***************************************************************************)
(* runGenerate (generate.go)                                               *)
(***************************************************************************)
\* LoadConfig and its error return
LoadConfig ==
  /\ pc = "LoadConfig"
  /\ cfg' = SetDefaults(raw)
  /\ pc' = IF Validate(cfg') THEN "NewRedisClient" ELSE "configError"
  /\ UNCHANGED << raw, now, deadline, cancelled, tickPending, ticks, trades, pubIdx,
                  tickErr, tickProfile, tickFraud, stats, rep, hist >>

\* redis.NewRedisClient: the sink connects or not
NewRedisClient ==
  /\ pc = "NewRedisClient"
  /\ \E ok \in BOOLEAN : pc' = IF ok THEN "Ping" ELSE "redisError"
  /\ UNCHANGED << raw, cfg, now, deadline, cancelled, tickPending, ticks, trades, pubIdx,
                  tickErr, tickProfile, tickFraud, stats, rep, hist >>

\* a probe whose result is not looked at
PingUnchecked ==
  /\ pc = "Ping"
  /\ \E ok \in BOOLEAN :
       /\ pc' = "NewGenerator"
       /\ hist' = [hist EXCEPT !.probes = IF ok THEN @ + 1 ELSE @]
  /\ UNCHANGED << raw, cfg, now, deadline, cancelled, tickPending, ticks, trades, pubIdx,
                  tickErr, tickProfile, tickFraud, stats, rep >>

\* redisClient.Ping: the liveness probe
Ping ==
  /\ pc = "Ping"
  /\ \E ok \in BOOLEAN :
       /\ pc' = IF ok THEN "NewGenerator" ELSE "redisError"
       /\ hist' = [hist EXCEPT !.probes = IF ok THEN @ + 1 ELSE @]
  /\ UNCHANGED << raw, cfg, now, deadline, cancelled, tickPending, ticks, trades, pubIdx,
                  tickErr, tickProfile, tickFraud, stats, rep >>

\* NewGenerator, and the signal handler's registration
NewGenerator ==
  /\ pc = "NewGenerator"
  /\ stats' = NewStatistics(now)
  /\ pc' = "Run"
  /\ UNCHANGED << raw, cfg, now, deadline, cancelled, tickPending, ticks, trades, pubIdx,
                  tickErr, tickProfile, tickFraud, rep, hist >>

\* the goroutine waiting on sigChan: a signal arrives and it calls cancel()
Signal ==
  /\ pc \in {"Run", "printFinalStats"} \cup LoopPcs
  /\ ~cancelled
  /\ cancelled' = TRUE
  /\ UNCHANGED << raw, cfg, pc, now, deadline, tickPending, ticks, trades, pubIdx, tickErr,
                  tickProfile, tickFraud, stats, rep, hist >>

(***************************************************************************)
(* Generator.Run (generator.go)                                            *)
(***************************************************************************)
\* "Set deadline if duration is specified"
Deadline(c, t) == IF c.Duration > 0 THEN t + c.Duration ELSE NoDeadline

\* a Run that starts the reporter and leaves the profile counters for later
RunStartReporterFirst ==
  /\ pc = "Run"
  /\ stats' = stats
  /\ rep' = [rep EXCEPT !.pc = "wait", !.next = now + cfg.StatsInterval]
  /\ deadline' = Deadline(cfg, now)
  /\ pc' = "select"
  /\ UNCHANGED << raw, cfg, now, cancelled, tickPending, ticks, trades, pubIdx, tickErr,
                  tickProfile, tickFraud, hist >>

\* the prologue of Run: the profile counters, the reporter, the ticker, the deadline
RunStart ==
  /\ pc = "Run"
  /\ stats' = InitProfileCounters(stats, GetDefaultProfiles)
  /\ rep' = [rep EXCEPT !.pc = "wait", !.next = now + cfg.StatsInterval]
  /\ deadline' = Deadline(cfg, now)
  /\ pc' = "select"
  /\ UNCHANGED << raw, cfg, now, cancelled, tickPending, ticks, trades, pubIdx, tickErr,
                  tickProfile, tickFraud, hist >>

\* how far the clock moves between two deliveries of the ticker: one period
TimeSteps(c) == {TickInterval(c)}

\* time passes and the ticker delivers a tick; a tick not yet taken is dropped.
\* Past the deadline the clock is no longer advanced: no later time is read.
TickerFire ==
  /\ pc \in LoopPcs
  /\ ticks < TickBudget(cfg) \/ DeadlinePassed
  /\ \E step \in TimeSteps(cfg) : now' = IF DeadlinePassed THEN now ELSE now + step
  /\ ticks' = IF ticks < TickBudget(cfg) THEN ticks + 1 ELSE ticks
  /\ tickPending' = TRUE
  /\ UNCHANGED << raw, cfg, pc, deadline, cancelled, trades, pubIdx, tickErr, tickProfile,
                  tickFraud, stats, rep, hist >>

\* select, case <-ctx.Done()
DoneBranch ==
  /\ pc = "select"
  /\ cancelled
  /\ pc' = "printFinalStats"
  /\ UNCHANGED << raw, cfg, now, deadline, cancelled, tickPending, ticks, trades, pubIdx,
                  tickErr, tickProfile, tickFraud, stats, rep, hist >>

\* a tick branch without the deadline check: what C5 rests on
AfterDeadlineCheckNever(passed) == "publish"

\* where the tick branch goes after "Check deadline"
AfterDeadlineCheck(passed) == IF passed THEN "printFinalStats" ELSE "publish"

\* select, case <-ticker.C, with the deadline passed
TickDeadline ==
  /\ pc = "select"
  /\ tickPending
  /\ DeadlinePassed
  /\ tickPending' = FALSE
  /\ pc' = AfterDeadlineCheck(TRUE)
  /\ UNCHANGED << raw, cfg, now, deadline, cancelled, ticks, trades, pubIdx, tickErr,
                  tickProfile, tickFraud, stats, rep, hist >>

\* select, case <-ticker.C, and generateAndPublish up to its first publish
TickGenerate ==
  /\ pc = "select"
  /\ tickPending
  /\ ~DeadlinePassed
  /\ tickPending' = FALSE
  /\ pc' = AfterDeadlineCheck(FALSE)
  /\ \E fraudU \in EngineFloats :
       \E d \in EngineDraws(GetDefaultProfiles, cfg, fraudU) :
         LET plan == generateAndPublish(GetDefaultProfiles, cfg, now, d)
         IN  /\ trades' = plan.trades
             /\ tickProfile' = plan.profile
             /\ tickFraud' = plan.isFraud
             /\ tickErr' = plan.err
  /\ pubIdx' = 0
  /\ hist' = [hist EXCEPT !.processed = @ + 1,
                          !.total0 = stats.TotalTrades, !.fraud0 = stats.FraudPatterns,
                          !.cancelledAtTick = cancelled]
  /\ UNCHANGED << raw, cfg, now, deadline, cancelled, ticks, stats, rep >>

\* a publish that is tried again after an error
PublishRetried ==
  /\ pc = "publish"
  /\ ~tickErr
  /\ pubIdx < Len(trades)
  /\ \E ok \in BOOLEAN :
       IF ok THEN /\ pc' = "updateStats"
                  /\ pubIdx' = pubIdx + 1
                  /\ tickErr' = FALSE
                  /\ hist' = [hist EXCEPT !.published = @ + 1]
       ELSE /\ pc' = "publish"
            /\ pubIdx' = pubIdx
            /\ tickErr' = FALSE
            /\ hist' = [hist EXCEPT !.failed = IF @ < 2 THEN @ + 1 ELSE @]
  /\ UNCHANGED << raw, cfg, now, deadline, cancelled, tickPending, ticks, trades,
                  tickProfile, tickFraud, stats, rep >>

\* PublishTradeToStream of the next trade: the sink accepts it or returns an error
Publish ==
  /\ pc = "publish"
  /\ ~tickErr
  /\ pubIdx < Len(trades)
  /\ pubIdx' = pubIdx + 1
  /\ \E ok \in BOOLEAN :
       IF ok THEN /\ pc' = "updateStats"
                  /\ tickErr' = FALSE
                  /\ hist' = [hist EXCEPT !.published = @ + 1]
       ELSE /\ pc' = "publish"
            /\ tickErr' = TRUE
            /\ hist' = [hist EXCEPT !.failed = @ + 1]
  /\ UNCHANGED << raw, cfg, now, deadline, cancelled, tickPending, ticks, trades,
                  tickProfile, tickFraud, stats, rep >>

\* updateStats, TotalTrades.Add(1)
UpdateTotal ==
  /\ pc = "updateStats"
  /\ stats' = AddTotal(stats)
  /\ pc' = "updateRest"
  /\ UNCHANGED << raw, cfg, now, deadline, cancelled, tickPending, ticks, trades, pubIdx,
                  tickErr, tickProfile, tickFraud, rep, hist >>

\* updateStats, the rest of it
UpdateRest ==
  /\ pc = "updateRest"
  /\ stats' = AddRest(stats, trades[pubIdx], tickProfile, tickFraud)
  /\ pc' = "publish"
  /\ UNCHANGED << raw, cfg, now, deadline, cancelled, tickPending, ticks, trades, pubIdx,
                  tickErr, tickProfile, tickFraud, rep, hist >>

\* a Run that returns on the error of a tick: what C2 rests on
AfterGenerateFatal(err) == IF err THEN "printFinalStats" ELSE "select"

\* where Run goes when generateAndPublish has returned, with an error or without
AfterGenerate(err) == "select"

\* a tick that returns while trades of its pattern are still to be published
TickReturnEarly ==
  /\ pc = "publish"
  /\ pc' = AfterGenerate(tickErr)
  /\ hist' = [hist EXCEPT !.prevTickFailed = tickErr]
  /\ trades' = << >>
  /\ pubIdx' = 0
  /\ tickErr' = FALSE
  /\ tickProfile' = NilProfile
  /\ tickFraud' = FALSE
  /\ UNCHANGED << raw, cfg, now, deadline, cancelled, tickPending, ticks, stats, rep >>

\* generateAndPublish returns; Run prints its error, if any, and loops
TickReturn ==
  /\ pc = "publish"
  /\ tickErr \/ pubIdx = Len(trades)
  /\ pc' = AfterGenerate(tickErr)
  /\ hist' = [hist EXCEPT !.prevTickFailed = tickErr]
  /\ trades' = << >>
  /\ pubIdx' = 0
  /\ tickErr' = FALSE
  /\ tickProfile' = NilProfile
  /\ tickFraud' = FALSE
  /\ UNCHANGED << raw, cfg, now, deadline, cancelled, tickPending, ticks, stats, rep >>

\* printFinalStats, and Run returns
PrintFinalStats ==
  /\ pc = "printFinalStats"
  /\ hist' = [hist EXCEPT !.finalReports = @ + 1]
  /\ pc' = "returned"
  /\ UNCHANGED << raw, cfg, now, deadline, cancelled, tickPending, ticks, trades, pubIdx,
                  tickErr, tickProfile, tickFraud, stats, rep >>

\* runGenerate returns: the deferred cancel() runs and the process ends
Return ==
  /\ pc = "returned"
  /\ cancelled' = TRUE
  /\ rep' = [rep EXCEPT !.pc = "dead"]
  /\ pc' = "exited"
  /\ UNCHANGED << raw, cfg, now, deadline, tickPending, ticks, trades, pubIdx, tickErr,
                  tickProfile, tickFraud, stats, hist >>

(***************************************************************************)
(* Generator.reportStats, the reporting goroutine                          *)
(***************************************************************************)
\* the stats ticker's channel holds one tick, the ticks that came due while it was
\* full are dropped: after the tick due at time due is taken at time t, the next
\* one is due at the first multiple of the period after t
NextStatsTick(due, t, c) == due + c.StatsInterval * ((t - due) \div c.StatsInterval + 1)

\* select, case <-ticker.C, up to TotalTrades.Load(): the ticker of period
\* StatsInterval has a tick to deliver
ReportWake ==
  /\ rep.pc = "wait"
  /\ now >= rep.next
  /\ rep' = [rep EXCEPT !.pc = "loadFraud", !.next = NextStatsTick(@, now, cfg),
                        !.total = stats.TotalTrades]
  /\ hist' = [hist EXCEPT !.wakesAfterCancel =
                             IF cancelled /\ @ < MaxLateWakes THEN @ + 1 ELSE @]
  /\ UNCHANGED << raw, cfg, pc, now, deadline, cancelled, tickPending, ticks, trades,
                  pubIdx, tickErr, tickProfile, tickFraud, stats >>

\* FraudPatterns.Load()
ReportLoadFraud ==
  /\ rep.pc = "loadFraud"
  /\ rep' = [rep EXCEPT !.pc = "print", !.fraud = stats.FraudPatterns]
  /\ UNCHANGED << raw, cfg, pc, now, deadline, cancelled, tickPending, ticks, trades,
                  pubIdx, tickErr, tickProfile, tickFraud, stats, hist >>

\* VolumeGenerated.Load() and the line printed
ReportPrint ==
  /\ rep.pc = "print"
  /\ rep' = [rep EXCEPT !.pc = "wait", !.total = 0, !.fraud = 0]
  /\ hist' = [hist EXCEPT !.lateLine = @ \/ hist.finalReports > 0]
  /\ UNCHANGED << raw, cfg, pc, now, deadline, cancelled, tickPending, ticks, trades,
                  pubIdx, tickErr, tickProfile, tickFraud, stats >>

\* select, case <-ctx.Done()
ReportExit ==
  /\ rep.pc = "wait"
  /\ cancelled
  /\ rep' = [rep EXCEPT !.pc = "exited"]
  /\ UNCHANGED << raw, cfg, pc, now, deadline, cancelled, tickPending, ticks, trades,
                  pubIdx, tickErr, tickProfile, tickFraud, stats, hist >>

(***************************************************************************)
(* Memory accesses to Statistics, by goroutine                             *)
(***************************************************************************)
\* an access: atomic "load" or "add", plain "read" or "write"
Access(obj, kind) == [obj |-> obj, kind |-> kind]

\* the accesses of the main goroutine's next step
MainAccesses(p) ==
  CASE p = "NewGenerator" ->
         { Access("ByProfile", "write"), Access("BySymbol", "write"),
           Access("StartTime", "write") }
    [] p = "Run" -> { Access("ByProfile", "write") }
    [] p = "updateStats" -> { Access("TotalTrades", "add") }
    [] p = "updateRest" ->
         { Access("FraudPatterns", "add"), Access("VolumeGenerated", "add"),
           Access("ByProfile", "read"), Access("ByProfile counter", "add"),
           Access("BySymbol", "read"), Access("BySymbol", "write"),
           Access("BySymbol counter", "add") }
    [] p = "printFinalStats" ->
         { Access("StartTime", "read"), Access("TotalTrades", "load"),
           Access("FraudPatterns", "load"), Access("VolumeGenerated", "load"),
           Access("ByProfile", "read"), Access("ByProfile counter", "load") }
    [] OTHER -> {}

\* the accesses of the reporting goroutine's next step
ReporterAccesses(p) ==
  CASE p = "wait" -> { Access("StartTime", "read"), Access("TotalTrades", "load") }
    [] p = "loadFraud" -> { Access("FraudPatterns", "load") }
    [] p = "print" -> { Access("VolumeGenerated", "load") }
    [] OTHER -> {}

(***************************************************************************)
(* Specifications                                                          *)
(***************************************************************************)
Next ==
  \/ LoadConfig
  \/ NewRedisClient
  \/ Ping
  \/ NewGenerator
  \/ Signal
  \/ RunStart
  \/ TickerFire
  \/ DoneBranch
  \/ TickDeadline
  \/ TickGenerate
  \/ Publish
  \/ UpdateTotal
  \/ UpdateRest
  \/ TickReturn
  \/ PrintFinalStats
  \/ Return
  \/ ReportWake
  \/ ReportLoadFraud
  \/ ReportPrint
  \/ ReportExit

Spec == Init /\ [][Next]_vars

\* the steps of the main goroutine that need nothing but the scheduler and a sink
\* whose calls return
MainStep ==
  \/ RunStart
  \/ TickDeadline
  \/ Publish
  \/ UpdateTotal
  \/ UpdateRest
  \/ TickReturn
  \/ PrintFinalStats
  \/ Return

\* The scheduler runs the main goroutine, the ticker keeps delivering, and a select
\* with ctx.Done() ready again and again takes that case in the end (select picks
\* uniformly among its ready cases).
Fairness ==
  /\ WF_vars(MainStep)
  /\ WF_vars(TickerFire)
  /\ SF_vars(DoneBranch)

SpecLive == Init /\ [][Next]_vars /\ Fairness

\* the end-to-end run, followed to its deadline
SpecRun == InitRun /\ [][Next]_vars

\* the runs that differ in their fraud type
SpecFilter == InitFilter /\ [][Next]_vars

(***************************************************************************)
(* The pattern injector on its own: every profile of the catalog, and the  *)
(* draws taken from larger sets than a tick of the loop takes them from    *)
(***************************************************************************)
\* the values rand.Intn's underlying draw takes
RandRaws == 0..19

\* the draws that choose a symbol
SymbolRaws == 0..8

SynthNormalInputs ==
  {Rat(0, 1), Rat(19, 20)} \X RandRaws \X (RandNorms \cup {-1, 1}) \X RandFloats
    \X {Rat(0, 1), Rat(1, 2)}

SynthNormalDraws(x) ==
  [NoDraws EXCEPT !.symU = x[1], !.symRaw = x[2], !.z = x[3], !.priceU = x[4],
                  !.sideU = x[5]]

SynthWashInputs ==
  {Rat(0, 1), Rat(19, 20)} \X SymbolRaws \X RandNorms \X RandFloats \X RandFloats \X (0..4)

SynthWashDraws(x) ==
  [NoDraws EXCEPT !.symU = x[1], !.symRaw = x[2], !.z = x[3], !.priceU = x[4],
                  !.sellU = x[5], !.gapRaw = x[6]]

SynthVelocityInputs ==
  {Rat(0, 1), Rat(19, 20)} \X {0, 1} \X RandFloats \X (0..11) \X (0..2)

SynthVelocityDraws(x) ==
  [NoDraws EXCEPT !.symU = x[1], !.symRaw = x[2], !.priceU = x[3], !.nRaw = x[4],
                  !.iter = Tape(x[5])]

\* the draws each variant of the anomaly reads
SynthAnomalyInputs(typeRaw) ==
  CASE Intn(typeRaw, 4) = 0 -> {Rat(0, 1), Rat(19, 20)} \X SymbolRaws \X RandFloats
    [] Intn(typeRaw, 4) = 1 -> RandNorms \X {0, 3, 4} \X {0, 59, 60} \X {0, 59, 60}
    [] Intn(typeRaw, 4) = 2 -> RandNorms \X (0..5) \X RandFloats
    [] OTHER -> {Rat(0, 1), Rat(19, 20)} \X SymbolRaws \X RandNorms \X RandFloats
                \X RandFloats

SynthAnomalyDraws(typeRaw, x) ==
  CASE Intn(typeRaw, 4) = 0 ->
         [NoDraws EXCEPT !.typeRaw = typeRaw, !.symU = x[1], !.symRaw = x[2],
                         !.priceU = x[3]]
    [] Intn(typeRaw, 4) = 1 ->
         [NoDraws EXCEPT !.typeRaw = typeRaw, !.z = x[1], !.hourRaw = x[2],
                         !.minRaw = x[3], !.secRaw = x[4]]
    [] Intn(typeRaw, 4) = 2 ->
         [NoDraws EXCEPT !.typeRaw = typeRaw, !.z = x[1], !.pennyRaw = x[2],
                         !.pennyU = x[3]]
    [] OTHER ->
         [NoDraws EXCEPT !.typeRaw = typeRaw, !.symU = x[1], !.symRaw = x[2], !.z = x[3],
                         !.priceU = x[4], !.devU = x[5]]

InitSynth ==
  /\ raw = RawConfig(0, 0, 0, "", 0, 0, 0, 0)
  /\ cfg = NoConfig
  /\ pc = "NewPatternGenerator"
  /\ now \in StartTimes
  /\ deadline = NoDeadline
  /\ cancelled = FALSE
  /\ tickPending = FALSE
  /\ ticks = 0
  /\ trades = << >>
  /\ pubIdx = 0
  /\ tickErr = FALSE
  /\ tickProfile = NilProfile
  /\ tickFraud = FALSE
  /\ stats = NewStatistics(0)
  /\ rep = [pc |-> "off", next |-> 0, total |-> 0, fraud |-> 0]
  /\ hist = NoHistory

\* generateTrade called on a profile: what it returns is kept in trades, the profile
\* it was called with in tickProfile
SynthTrade ==
  /\ pc = "NewPatternGenerator"
  /\ pc' = "generateTrade"
  /\ \E i \in 1..Len(GetDefaultProfiles) : \E x \in SynthNormalInputs :
       /\ tickProfile' = GetDefaultProfiles[i]
       /\ trades' = <<generateTrade(GetDefaultProfiles[i], now, SynthNormalDraws(x))>>
  /\ UNCHANGED << raw, cfg, now, deadline, cancelled, tickPending, ticks, pubIdx, tickErr,
                  tickFraud, stats, rep, hist >>

\* InjectWashTrade called on a profile
SynthWashTrade ==
  /\ pc = "NewPatternGenerator"
  /\ pc' = "InjectWashTrade"
  /\ \E i \in 1..Len(GetDefaultProfiles) : \E x \in SynthWashInputs :
       /\ tickProfile' = GetDefaultProfiles[i]
       /\ trades' = InjectWashTrade(GetDefaultProfiles[i], now, SynthWashDraws(x))
  /\ UNCHANGED << raw, cfg, now, deadline, cancelled, tickPending, ticks, pubIdx, tickErr,
                  tickFraud, stats, rep, hist >>

\* InjectVelocitySpike called on a profile
SynthVelocitySpike ==
  /\ pc = "NewPatternGenerator"
  /\ pc' = "InjectVelocitySpike"
  /\ \E i \in 1..Len(GetDefaultProfiles) : \E x \in SynthVelocityInputs :
       /\ tickProfile' = GetDefaultProfiles[i]
       /\ trades' = InjectVelocitySpike(GetDefaultProfiles[i], now, SynthVelocityDraws(x))
  /\ UNCHANGED << raw, cfg, now, deadline, cancelled, tickPending, ticks, pubIdx, tickErr,
                  tickFraud, stats, rep, hist >>

\* InjectAnomaly called on a profile
SynthAnomaly ==
  /\ pc = "NewPatternGenerator"
  /\ pc' = "InjectAnomaly"
  /\ \E i \in 1..Len(GetDefaultProfiles) : \E typeRaw \in 0..4 :
       \E x \in SynthAnomalyInputs(typeRaw) :
         /\ tickProfile' = GetDefaultProfiles[i]
         /\ trades' = <<InjectAnomaly(GetDefaultProfiles[i], now,
                                      SynthAnomalyDraws(typeRaw, x))>>
         /\ hist' = [hist EXCEPT !.anomalyType = Intn(typeRaw, 4)]
  /\ UNCHANGED << raw, cfg, now, deadline, cancelled, tickPending, ticks, pubIdx, tickErr,
                  tickFraud, stats, rep >>

NextSynth ==
  \/ SynthTrade
  \/ SynthWashTrade
  \/ SynthVelocitySpike
  \/ SynthAnomaly

SpecSynth == InitSynth /\ [][NextSynth]_vars

(***************************************************************************)
(* Profile selection on its own: SelectProfile, SelectFraudProfile and the *)
(* fraud branch of a tick, called on catalogs that lack a category or a    *)
(* pattern as well as on the default one                                   *)
(***************************************************************************)
\* a Fraud-category profile that carries no pattern
PatternlessFraudProfile ==
  Profile("FRAUD_NONE_001", FraudTrader, SubSeq(PopularSymbols, 1, 3), 5000, 2, NoFraud)

\* the default catalog; without its fraud profiles; without its HFT profiles; with
\* the wash trader as only fraud profile; with a pattern-less fraud profile as
\* only fraud profile; the fraud profiles alone
Catalogs ==
  { GetDefaultProfiles,
    SubSeq(GetDefaultProfiles, 1, 11),
    SubSeq(GetDefaultProfiles, 4, 14),
    SubSeq(GetDefaultProfiles, 1, 12),
    SubSeq(GetDefaultProfiles, 1, 11) \o <<PatternlessFraudProfile>>,
    SubSeq(GetDefaultProfiles, 12, 14) }

\* the category ratios, in hundredths
RatioTriples == { <<20, 70, 10>>, <<60, 30, 10>>, <<10, 10, 80>> }

\* draws of r on and around the thresholds
SelectFloats ==
  { Rat(0, 1), Rat(1, 10), Rat(19, 100), Rat(1, 5), Rat(3, 5), Rat(89, 100), Rat(9, 10),
    Rat(19, 20) }

SelectRaws == 0..13

FraudTypeNames == {"ALL", "WASH", "VELOCITY", "ANOMALY"}

\* the configuration of a tick of the fraud branch
SelectConfig(ratios, name) ==
  SetDefaults(RawConfig(1, 0, 100, name, 0, ratios[1], ratios[2], ratios[3]))

InitSelect ==
  /\ raw = RawConfig(0, 0, 0, "", 0, 0, 0, 0)
  /\ cfg = NoConfig
  /\ pc = "profiles"
  /\ now \in StartTimes
  /\ deadline = NoDeadline
  /\ cancelled = FALSE
  /\ tickPending = FALSE
  /\ ticks = 0
  /\ trades = << >>
  /\ pubIdx = 0
  /\ tickErr = FALSE
  /\ tickProfile = NilProfile
  /\ tickFraud = FALSE
  /\ stats = NewStatistics(0)
  /\ rep = [pc |-> "off", next |-> 0, total |-> 0, fraud |-> 0]
  /\ hist = NoHistory

\* SelectProfile called: what it returns is kept in tickProfile, its arguments and
\* its draw r in hist.call
SelectProfileCall ==
  /\ pc = "profiles"
  /\ pc' = "SelectProfile"
  /\ \E profiles \in Catalogs \cup {<< >>} : \E ratios \in RatioTriples :
       \E r \in SelectFloats : \E k \in SelectRaws :
         /\ tickProfile' = SelectProfile(profiles, ratios[1], ratios[2], ratios[3], r, k)
         /\ hist' = [hist EXCEPT !.call = [op |-> "SelectProfile", profiles |-> profiles,
                                            ratios |-> ratios, r |-> r, raw |-> k]]
  /\ UNCHANGED << raw, cfg, now, deadline, cancelled, tickPending, ticks, trades, pubIdx,
                  tickErr, tickFraud, stats, rep >>

\* SelectFraudProfile called: what it returns is kept in tickProfile
SelectFraudProfileCall ==
  /\ pc = "profiles"
  /\ pc' = "SelectFraudProfile"
  /\ \E profiles \in Catalogs : \E name \in FraudTypeNames : \E k \in SelectRaws :
       /\ tickProfile' = SelectFraudProfile(profiles, ParseFraudType(name), k)
       /\ hist' = [hist EXCEPT !.call = [op |-> "SelectFraudProfile",
                                          profiles |-> profiles,
                                          fraudType |-> ParseFraudType(name)]]
  /\ UNCHANGED << raw, cfg, now, deadline, cancelled, tickPending, ticks, trades, pubIdx,
                  tickErr, tickFraud, stats, rep >>

\* generateFraudPattern called, up to its first publish: the plan of the tick is
\* kept in trades, tickProfile, tickFraud and tickErr
FraudPatternCall ==
  /\ pc = "profiles"
  /\ pc' = "generateFraudPattern"
  /\ \E profiles \in Catalogs : \E ratios \in RatioTriples : \E name \in FraudTypeNames :
       \E r \in SelectFloats : \E k \in {0, 1, 2} :
         LET c == SelectConfig(ratios, name)
             d == [NoDraws EXCEPT !.fraudRaw = k, !.profR = r, !.profRaw = k]
             plan == generateFraudPattern(profiles, c, now, d)
         IN  /\ cfg' = c
             /\ trades' = plan.trades
             /\ tickProfile' = plan.profile
             /\ tickFraud' = plan.isFraud
             /\ tickErr' = plan.err
             /\ hist' = [hist EXCEPT !.call = [op |-> "generateFraudPattern",
                                                profiles |-> profiles, ratios |-> ratios,
                                                r |-> r,
                                                fraudType |-> ParseFraudType(name)]]
  /\ UNCHANGED << raw, now, deadline, cancelled, tickPending, ticks, pubIdx, stats, rep >>

\* generateNormalTrade called, up to its publish, on a catalog that may be empty
NormalTradeCall ==
  /\ pc = "profiles"
  /\ pc' = "generateNormalTrade"
  /\ \E profiles \in Catalogs \cup {<< >>} : \E ratios \in RatioTriples :
       \E r \in SelectFloats : \E k \in {0, 1, 2} :
         LET c == SelectConfig(ratios, "ALL")
             d == [NoDraws EXCEPT !.profR = r, !.profRaw = k]
             plan == generateNormalTrade(profiles, c, now, d)
         IN  /\ cfg' = c
             /\ trades' = plan.trades
             /\ tickProfile' = plan.profile
             /\ tickFraud' = plan.isFraud
             /\ tickErr' = plan.err
             /\ hist' = [hist EXCEPT !.call = [op |-> "generateNormalTrade",
                                                profiles |-> profiles, ratios |-> ratios,
                                                r |-> r, raw |-> k]]
  /\ UNCHANGED << raw, now, deadline, cancelled, tickPending, ticks, pubIdx, stats, rep >>

NextSelect ==
  \/ SelectProfileCall
  \/ NormalTradeCall
  \/ SelectFraudProfileCall
  \/ FraudPatternCall

SpecSelect == InitSelect /\ [][NextSelect]_vars

(***************************************************************************)
(* updateStats on its own (generator.go): trades recorded one after the    *)
(* other on a Statistics value.  pc is "Statistics" before the first call  *)
(* and "updateStats" after a call; trades holds the trade recorded last;   *)
(* hist.volumeSum is the sum of the recorded trades' volumes as a          *)
(* mathematical integer, on top of the volume the run had before.          *)
(***************************************************************************)
\* VolumeGenerated early in a run, and late in a run that has no deadline:
\* 2^64 - 10^9
VolumesBefore == { << >>, <<616, 551, 708, 73, 744, 446, 18>> }

\* the Statistics of a run whose volume so far is v; the other counters count
\* from here on
StatisticsAt(v) ==
  [InitProfileCounters(NewStatistics(0), GetDefaultProfiles) EXCEPT !.VolumeGenerated = v]

StatsNormalInputs == {0} \X {-1} \X {Rat(0, 1), Rat(19, 20)}

StatsNormalDraws(x) ==
  [NoDraws EXCEPT !.symU = Rat(0, 1), !.symRaw = x[1], !.z = x[2], !.priceU = x[3]]

StatsAnomalyInputs == {0, 3} \X {Rat(19, 20)} \X {Rat(1, 2), Rat(19, 20)}

StatsAnomalyDraws(x) ==
  [NoDraws EXCEPT !.typeRaw = x[1], !.symU = Rat(0, 1), !.priceU = x[2], !.devU = x[3]]

\* floor(amount * price * 100) as one division of one product
FloorCents(trade) ==
  The({ BigDiv(BigMul(BigMul(BigOf(trade.Amount), trade.Price.cents), f.n), f.d) :
          f \in {RatProduct(trade.Price.factors)} })

InitStats ==
  /\ raw = RawConfig(0, 0, 0, "", 0, 0, 0, 0)
  /\ cfg = NoConfig
  /\ pc = "Statistics"
  /\ now \in StartTimes
  /\ deadline = NoDeadline
  /\ cancelled = FALSE
  /\ tickPending = FALSE
  /\ ticks = 0
  /\ trades = << >>
  /\ pubIdx = 0
  /\ tickErr = FALSE
  /\ tickProfile = NilProfile
  /\ tickFraud = FALSE
  /\ \E v \in VolumesBefore :
       /\ stats = StatisticsAt(v)
       /\ hist = [NoHistory EXCEPT !.volumeSum = v]
  /\ rep = [pc |-> "off", next |-> 0, total |-> 0, fraud |-> 0]

\* updateStats(trade, profile, isFraud) with the trade just built for the profile
Record(trade, profile, isFraud) ==
  /\ pc' = "updateStats"
  /\ trades' = <<trade>>
  /\ tickProfile' = profile
  /\ tickFraud' = isFraud
  /\ stats' = updateStats(stats, trade, profile, isFraud)
  /\ hist' = [hist EXCEPT !.recorded = @ + 1,
                          !.volumeSum = BigAdd(@, FloorCents(trade))]
  /\ UNCHANGED << raw, cfg, now, deadline, cancelled, tickPending, ticks, pubIdx, tickErr,
                  rep >>

\* a trade of generateTrade is recorded
RecordNormalTrade ==
  /\ pc \in {"Statistics", "updateStats"}
  /\ hist.recorded < MaxRecorded
  /\ \E i \in 1..Len(GetDefaultProfiles) : \E x \in StatsNormalInputs :
       Record(generateTrade(GetDefaultProfiles[i], now, StatsNormalDraws(x)),
              GetDefaultProfiles[i], FALSE)

\* a trade of InjectAnomaly is recorded
RecordAnomalyTrade ==
  /\ pc \in {"Statistics", "updateStats"}
  /\ hist.recorded < MaxRecorded
  /\ \E i \in 1..Len(GetDefaultProfiles) : \E x \in StatsAnomalyInputs :
       /\ GetDefaultProfiles[i].FraudPattern = Anomaly
       /\ Record(InjectAnomaly(GetDefaultProfiles[i], now, StatsAnomalyDraws(x)),
                 GetDefaultProfiles[i], TRUE)

NextStats ==
  \/ RecordNormalTrade
  \/ RecordAnomalyTrade

SpecStats == InitStats /\ [][NextStats]_vars

(***************************************************************************)
(* Properties                                                              *)
(***************************************************************************)
\* the main goroutine is inside a tick of the loop
InTick == pc \in {"publish", "updateStats", "updateRest"}

\* generateAndPublish is about to return
TickEnd == pc = "publish" /\ (tickErr \/ pubIdx = Len(trades))

\* q / p for two prices, as a reduced rational
PriceRatio(q, p) ==
  LET Inverse(f) == Rat(f.d, f.n)
      over == RatProduct(q.factors)
      under == RatProduct([i \in 1..Len(p.factors) |-> Inverse(p.factors[i])])
  IN  RatMul(Reduce(Rat(q.cents, p.cents)), RatMul(over, under))

\* |q - p| <= tol * p
WithinRelative(q, p, tol) ==
  LET r == PriceRatio(q, p) IN Abs(r.n - r.d) * tol.d <= tol.n * r.d

\* C1: every trade that generateTrade, InjectWashTrade, InjectVelocitySpike or
\* InjectAnomaly (each of its four variants) builds, for every profile of the
\* catalog, has amount > 0 and price > 0.
C1_AmountAndPricePositive ==
  \A i \in 1..Len(trades) : trades[i].Amount > 0 /\ PricePositive(trades[i].Price)

\* an anomaly on a penny stock whose amount sits on the lower clamp
C1_Witness ==
  /\ pc = "InjectAnomaly"
  /\ Len(trades) = 1
  /\ trades[1].Symbol = "PENNY_A"
  /\ trades[1].Amount = tickProfile.AvgTradeSize \div 10

\* C2: a tick that ends with an error leaves Run in its loop, and Run leaves the loop
\* only for printFinalStats, with ctx cancelled or the deadline passed.
C2_PublishFailureNotFatal ==
  [][/\ (pc = "publish" /\ tickErr) => pc' \in LoopPcs
     /\ (pc \in LoopPcs /\ pc' \notin LoopPcs)
          => (pc' = "printFinalStats" /\ (cancelled \/ DeadlinePassed))]_vars

\* the tick after a tick whose publish failed has published a trade
C2_Witness == hist.prevTickFailed /\ hist.failed > 0 /\ pc = "updateStats"

\* C3: at the end of a tick of the fraud branch every trade the pattern injector
\* produced has been handed to PublishTradeToStream, and each one that was published
\* is counted as fraud.
C3_EveryFraudTradeHandedToPublish ==
  (tickFraud /\ TickEnd)
    => /\ pubIdx = Len(trades)
       /\ stats.FraudPatterns - hist.fraud0 = hist.published - hist.total0

\* C4: no tick generates trades when ctx was already cancelled at its select.
C4_NoGenerationAfterCancel == InTick => ~hist.cancelledAtTick

\* the transitions of section 4.4: Idle, Running, Draining, Stopped in this order
\* (or Idle to Aborted when the configuration or the sink is refused)
EngineOrder(from, to) ==
  \/ from = to
  \/ from = "Idle" /\ to \in {"Running", "Aborted"}
  \/ from = "Running" /\ to = "Draining"
  \/ from = "Draining" /\ to = "Stopped"

\* C5: once ctx is cancelled or the deadline has passed the engine reaches Stopped;
\* printFinalStats runs at most once, and exactly once before Stopped; the engine
\* moves Idle, Running, Draining, Stopped and never back.
C5_EventuallyStoppedOnce ==
  /\ (cancelled \/ DeadlinePassed) ~> (EngineState = "Stopped")
  /\ [](hist.finalReports <= 1 /\ (EngineState = "Stopped" <=> hist.finalReports = 1))
  /\ [][EngineOrder(EngineStateOf(pc), EngineStateOf(pc'))]_vars

\* Run has returned because its deadline passed, no signal having arrived
C5_Witness ==
  pc = "returned" /\ ~cancelled /\ DeadlinePassed /\ raw.Duration > 0
  /\ hist.finalReports = 1

\* C6: with a configured duration of 0, Run has no deadline.
C6_NoDeadlineWhenDurationZero ==
  (raw.Duration = 0 /\ EngineState = "Running") => deadline = NoDeadline

\* C7: between two ticks, when no publish has failed, TotalTrades and the sum of the
\* per-category counters both equal the number of successful publishes.
C7_StatsMatchPublishes ==
  (pc = "select" /\ hist.failed = 0)
    => /\ stats.TotalTrades = hist.published
       /\ SumByProfile(stats) = hist.published

\* two ticks, one of the normal branch and one of the fraud branch, both published
C7_Witness ==
  /\ pc = "select"
  /\ hist.failed = 0
  /\ hist.published = 2
  /\ stats.FraudPatterns = 1
  /\ SumByProfile(stats) = 2

\* a valid wash pair: Buy then Sell, same user, symbol and amount, the sell 1 to 4
\* whole seconds later, at a price within 0.05% of the buy price
ValidWashPair(ts) ==
  /\ Len(ts) = 2
  /\ ts[1].Type = TradeTypeBuy
  /\ ts[2].Type = TradeTypeSell
  /\ ts[1].UserID = ts[2].UserID
  /\ ts[1].Symbol = ts[2].Symbol
  /\ ts[1].Amount = ts[2].Amount
  /\ ts[2].Timestamp - ts[1].Timestamp \in {k * Second : k \in 1..4}
  /\ WithinRelative(ts[2].Price, ts[1].Price, Rat(5, 10000))

\* C8: InjectWashTrade returns a valid wash pair, for every profile.
C8_WashPair == pc = "InjectWashTrade" => ValidWashPair(trades)

\* a pair 4 seconds apart whose sell price is 0.05% under the buy price
C8_Witness ==
  /\ pc = "InjectWashTrade"
  /\ trades[2].Timestamp = trades[1].Timestamp + 4 * Second
  /\ PriceRatio(trades[2].Price, trades[1].Price) = Rat(1999, 2000)

\* fraudRate = 1.0 and fraudType = Wash
WashOnly == cfg.FraudRate = 100 /\ ParseFraudType(cfg.FraudType) = WashTrade

\* the trades published so far by the current tick
PublishedThisTick == hist.published - hist.total0

\* C9 as stated: with fraudRate = 1.0 and fraudType = Wash every tick takes the fraud
\* branch and has published exactly 2 trades, a valid wash pair, when it ends.
C9_EveryTickPublishesPair ==
  (WashOnly /\ TickEnd)
    => (tickFraud /\ ValidWashPair(trades) /\ PublishedThisTick = 2)

\* C9 as amended: with fraudRate = 1.0 and fraudType = Wash every tick takes the fraud
\* branch and generates a valid wash pair; the trades it has published are the
\* first ones of the pair, and both of them when no publish of the tick failed.
C9_EveryTickGeneratesPair ==
  (WashOnly /\ InTick)
    => /\ tickFraud
       /\ ValidWashPair(trades)
       /\ PublishedThisTick = IF tickErr THEN pubIdx - 1 ELSE pubIdx
       /\ (TickEnd /\ ~tickErr) => PublishedThisTick = 2

\* the second tick of a run has published its pair
C9_Witness ==
  WashOnly /\ TickEnd /\ ~tickErr /\ hist.total0 = 2 /\ PublishedThisTick = 2

\* C10: with fraudRate = 0 no tick takes the fraud branch, a tick holds at most one
\* trade, and FraudPatterns stays 0.
C10_NoFraudAtRateZero ==
  raw.FraudRate = 0 => (~tickFraud /\ Len(trades) <= 1 /\ stats.FraudPatterns = 0)

\* a tick of the normal branch has published its trade
C10_Witness ==
  raw.FraudRate = 0 /\ pc = "select" /\ hist.published = 1 /\ stats.TotalTrades = 1

(***************************************************************************)
(* C11: trades published in a run of tps = 10 and duration = 2 s           *)
(***************************************************************************)
\* the run of the end-to-end scenario
ScenarioRun == raw.TPS = 10 /\ raw.Duration = 2 * Second /\ raw.FraudRate = 0

\* the loop has left through the deadline check, not through cancellation
EndedAtDeadline == pc = "printFinalStats" /\ ~cancelled

\* every tick the ticker delivered was taken by the loop: the tick that saw the
\* deadline is the only one that was not processed
NoTickDropped == ticks = hist.processed + 1

\* with no fraud and no publish failure every processed tick published one trade
PublishedEqualsProcessed ==
  (raw.FraudRate = 0 /\ pc = "select" /\ hist.failed = 0)
    => hist.published = hist.processed

\* C11 as stated: with fraudRate = 0 and no publish failures the trades published
\* are the ticks processed, and a run of tps = 10 and duration = 2 s that ends at
\* its deadline has published 20 trades, give or take 1
C11_TwentyTradesInTwoSeconds ==
  /\ PublishedEqualsProcessed
  /\ (ScenarioRun /\ EndedAtDeadline /\ hist.failed = 0)
       => hist.published \in 19..21

\* C11 amended: with fraudRate = 0 and no publish failures the trades published
\* are the ticks processed, and a run of tps = 10 and duration = 2 s that ends at
\* its deadline has published 20 trades, give or take 1, when the loop took every
\* tick before the next one was due, so that the ticker dropped none
C11_TwentyTradesWhenNoTickDropped ==
  /\ PublishedEqualsProcessed
  /\ (ScenarioRun /\ EndedAtDeadline /\ hist.failed = 0 /\ NoTickDropped)
       => hist.published \in 19..21

\* the scenario has run to its deadline without a dropped tick or a failed publish
C11_Witness ==
  /\ ScenarioRun /\ EndedAtDeadline /\ hist.failed = 0 /\ NoTickDropped
  /\ hist.published = 20 /\ stats.TotalTrades = 20

(***************************************************************************)
(* C12: a configuration error is fatal before the engine starts            *)
(***************************************************************************)
\* tps outside [1,10000], fraud rate outside [0.0,1.0], or ratios that do not sum
\* to 1.0 within the tolerance of 0.01
OutOfRange(c) ==
  \/ c.TPS < 1 \/ c.TPS > 10000
  \/ c.FraudRate < 0 \/ c.FraudRate > 100
  \/ c.HFTRatio + c.RegularRatio + c.CasualRatio < 99
  \/ c.HFTRatio + c.RegularRatio + c.CasualRatio > 101

\* loading has returned its error and nothing else has happened: no connection to
\* the sink, no tick, no trade
FailedToLoad ==
  /\ pc = "configError"
  /\ ticks = 0 /\ ~tickPending /\ trades = << >>
  /\ hist = NoHistory

GeneratorCreated == stats # NewStatistics(0)

\* C13: the engine is Running, or past it, and a trade has been published, only
\* when the liveness probe has succeeded once; when connecting or the probe has
\* failed the run has aborted with no generator created and nothing published
C13_ProbedBeforeRunning ==
  /\ (EngineState \in {"Running", "Draining", "Stopped"} \/ hist.published > 0)
       => hist.probes = 1
  /\ GeneratorCreated => hist.probes = 1
  /\ pc = "redisError"
       => (~GeneratorCreated /\ hist.published = 0 /\ ticks = 0 /\ rep.pc = "off")
  /\ (pc \notin {"LoadConfig", "NewRedisClient", "Ping", "configError"} /\ hist.probes = 0)
       => pc = "redisError"

\* a trade is published in a run whose probe succeeded
C13_Witness ==
  EngineState = "Running" /\ hist.published = 1 /\ hist.probes = 1 /\ GeneratorCreated

\* the probe has failed and the run has aborted
C13_WitnessAborted ==
  pc = "redisError" /\ hist.probes = 0 /\ ~GeneratorCreated

(***************************************************************************)
(* C14: the generation loop and the reporter do not race on the statistics *)
(***************************************************************************)
\* two accesses of different goroutines, unordered, form a data race
Race(a, b) ==
  /\ a.obj = b.obj
  /\ a.kind \in {"write", "add"} \/ b.kind \in {"write", "add"}
  /\ ~(a.kind \in {"load", "add"} /\ b.kind \in {"load", "add"})

\* all the reporter ever accesses, once it has been started
ReporterEverAccesses ==
  UNION { ReporterAccesses(p) : p \in {"wait", "loadFraud", "print"} }

\* the categories of a catalog
ProfileTypes(profiles) == { profiles[i].Type : i \in DOMAIN profiles }

SharedCounters == {"TotalTrades", "FraudPatterns", "VolumeGenerated"}

StatsMaps == {"ByProfile", "BySymbol", "ByProfile counter", "BySymbol counter"}

\* C14: from the reporter's start on no access of the generation loop races with
\* an access of the reporter; the reporter only reads; every access to a shared
\* counter is an atomic load or add; the maps are touched by the generation
\* loop's goroutine only, and the per-category map is complete when the reporter
\* starts
C14_NoRaceOnStatistics ==
  /\ rep.pc # "off"
       => \A a \in MainAccesses(pc) : \A b \in ReporterEverAccesses : ~Race(a, b)
  /\ \A b \in ReporterAccesses(rep.pc) :
       b.kind \in {"load", "read"} /\ b.obj \notin StatsMaps
  /\ \A a \in MainAccesses(pc) \cup ReporterAccesses(rep.pc) :
       a.obj \in SharedCounters => a.kind \in {"load", "add"}
  /\ rep.pc # "off"
       => DOMAIN stats.ByProfile = ProfileTypes(GetDefaultProfiles)

\* the reporter is about to load the trade counter the loop is about to add to
C14_Witness ==
  /\ rep.pc = "wait" /\ now >= rep.next
  /\ pc = "updateStats"
  /\ DOMAIN stats.ByProfile = ProfileTypes(GetDefaultProfiles)

(***************************************************************************)
(* C15: the velocity burst                                                 *)
(***************************************************************************)
\* C15: InjectVelocitySpike returns N trades, N in 10..20, all of the profile's
\* user and of one symbol; trade i, counted from 0, is stamped base + i seconds,
\* so the first is stamped with the base time and neighbours are 1 s apart
C15_VelocityBurst ==
  pc = "InjectVelocitySpike"
    => /\ Len(trades) \in 10..20
       /\ \A k \in 1..Len(trades) :
            /\ trades[k].UserID = tickProfile.UserID
            /\ trades[k].Symbol = trades[1].Symbol
            /\ trades[k].Timestamp = now + (k - 1) * Second
       /\ trades[1].Timestamp = now
       /\ \A k \in 1..(Len(trades) - 1) :
            trades[k + 1].Timestamp - trades[k].Timestamp = Second

\* a burst of the greatest length, its last trade 19 s after the base time
C15_Witness ==
  /\ pc = "InjectVelocitySpike"
  /\ Len(trades) = 20
  /\ trades[20].Timestamp = now + 19 * Second
  /\ trades[20].Symbol = trades[1].Symbol

(***************************************************************************)
(* C16: the size variant of the anomaly                                    *)
(***************************************************************************)
\* the symbols GetRandomSymbol draws for a profile
DrawableSymbols(p) ==
  LET allSymbols == BlueChipSymbols \o PopularSymbols \o ETFSymbols
  IN  IF Len(p.TypicalSymbols) = 0 THEN {"AAPL"}
      ELSE { p.TypicalSymbols[i] : i \in 1..Len(p.TypicalSymbols) }
             \cup { allSymbols[i] : i \in 1..Len(allSymbols) }

\* the price table's price of a symbol, in cents
TablePrice(symbol) ==
  Price(IF symbol \in DOMAIN symbolPrices THEN symbolPrices[symbol] ELSE DefaultPriceCents,
        << >>)

\* C16: the trade of the anomaly's size variant (variant 0) has amount exactly
\* 10 x the profile's AvgTradeSize, the base time as timestamp, a symbol drawn for
\* the profile and that symbol's price within 1% of the price table
C16_SizeAnomaly ==
  (pc = "InjectAnomaly" /\ hist.anomalyType = 0)
    => /\ Len(trades) = 1
       /\ trades[1].Amount = 10 * tickProfile.AvgTradeSize
       /\ trades[1].Timestamp = now
       /\ trades[1].UserID = tickProfile.UserID
       /\ trades[1].Symbol \in DrawableSymbols(tickProfile)
       /\ WithinRelative(trades[1].Price, TablePrice(trades[1].Symbol), Rat(1, 100))

\* a size anomaly of ten times the average, above the upper clamp of 3 x
C16_Witness ==
  /\ pc = "InjectAnomaly" /\ hist.anomalyType = 0
  /\ Len(trades) = 1
  /\ trades[1].Amount = 10 * tickProfile.AvgTradeSize
  /\ trades[1].Amount > GenerateAmount(tickProfile, 20)

(***************************************************************************)
(* C17: the bounds of a generated amount                                   *)
(***************************************************************************)
\* the operations whose trades carry the amount GenerateAmount returned
AmountAsGenerated ==
  \/ pc \in {"generateTrade", "InjectWashTrade", "InjectVelocitySpike"}
  \/ pc = "InjectAnomaly" /\ hist.anomalyType # 0

\* C17: for every profile and every draw, a negative unclamped value included, the
\* amount GenerateAmount returns lies in [0.1 x AvgTradeSize, 3.0 x AvgTradeSize]
C17_AmountWithinClamp ==
  AmountAsGenerated
    => \A k \in 1..Len(trades) :
         /\ 10 * trades[k].Amount >= tickProfile.AvgTradeSize
         /\ trades[k].Amount <= 3 * tickProfile.AvgTradeSize

\* a trade whose unclamped amount is negative sits on the lower bound
C17_Witness ==
  /\ pc = "generateTrade"
  /\ Len(trades) = 1
  /\ GenerateAmountUnclamped(tickProfile, -20) < 0
  /\ 10 * trades[1].Amount = tickProfile.AvgTradeSize

\* a trade whose amount lies strictly between the bounds, away from the mean
C17_WitnessInside ==
  /\ pc = "generateTrade"
  /\ trades[1].Amount < tickProfile.AvgTradeSize
  /\ 10 * trades[1].Amount > tickProfile.AvgTradeSize

(***************************************************************************)
(* C18: SelectProfile is a three-way choice on one draw                    *)
(***************************************************************************)
\* the elements of a catalog
ProfilesOf(profiles) == { profiles[i] : i \in DOMAIN profiles }

\* the catalog has a profile of each of the three ordinary categories
HasEachCategory(profiles) ==
  {HFTTrader, RegularTrader, CasualTrader} \subseteq ProfileTypes(profiles)

\* the category the draw r falls to under the ratios, in hundredths
CategoryOfDraw(r, ratios) ==
  IF r.n * 100 < ratios[1] * r.d THEN HFTTrader
  ELSE IF r.n * 100 < (ratios[1] + ratios[2]) * r.d THEN RegularTrader
  ELSE CasualTrader

\* C18: on a catalog with an HFT, a Regular and a Casual profile SelectProfile
\* returns a profile of the catalog that is HFT iff r < hftRatio, Regular iff
\* hftRatio <= r < hftRatio + regularRatio and Casual otherwise, never a Fraud one
C18_ThreeWayChoice ==
  (pc = "SelectProfile" /\ HasEachCategory(hist.call.profiles))
    => LET r == hist.call.r
           hft == hist.call.ratios[1]
           regular == hist.call.ratios[2]
       IN  /\ tickProfile \in ProfilesOf(hist.call.profiles)
           /\ tickProfile.Type = HFTTrader <=> r.n * 100 < hft * r.d
           /\ tickProfile.Type = RegularTrader
                <=> (hft * r.d <= r.n * 100 /\ r.n * 100 < (hft + regular) * r.d)
           /\ tickProfile.Type = CasualTrader <=> (hft + regular) * r.d <= r.n * 100
           /\ tickProfile.Type # FraudTrader

\* a draw equal to hftRatio selects a Regular profile of the default catalog
C18_Witness ==
  /\ pc = "SelectProfile"
  /\ hist.call.profiles = GetDefaultProfiles
  /\ hist.call.ratios = <<20, 70, 10>> /\ hist.call.r = Rat(1, 5)
  /\ tickProfile.Type = RegularTrader

(***************************************************************************)
(* C19: SelectFraudProfile                                                 *)
(***************************************************************************)
\* the Fraud-category profiles of a catalog that pass the filter
MatchingFraudProfiles(profiles, fraudType) ==
  { p \in ProfilesOf(profiles) :
      p.Type = FraudTrader /\ (fraudType = AllFraud \/ p.FraudPattern = fraudType) }

\* C19: SelectFraudProfile returns a Fraud-category profile of the catalog whose
\* pattern equals the filter, any Fraud-category one when the filter is All; it
\* returns none exactly when no profile of the catalog passes; it never returns an
\* HFT, Regular or Casual profile
C19_OnlyMatchingFraudProfiles ==
  pc = "SelectFraudProfile"
    => LET matching == MatchingFraudProfiles(hist.call.profiles, hist.call.fraudType)
       IN  /\ tickProfile = NilProfile <=> matching = {}
           /\ tickProfile # NilProfile => tickProfile \in matching
           /\ tickProfile.Type \notin {HFTTrader, RegularTrader, CasualTrader}

\* the velocity trader is returned for the filter Velocity
C19_Witness ==
  /\ pc = "SelectFraudProfile"
  /\ hist.call.profiles = GetDefaultProfiles /\ hist.call.fraudType = VelocitySpike
  /\ tickProfile.Type = FraudTrader /\ tickProfile.FraudPattern = VelocitySpike

\* none is returned for the filter Velocity on a catalog whose only fraud profile
\* is the wash trader
C19_WitnessNone ==
  /\ pc = "SelectFraudProfile"
  /\ hist.call.fraudType = VelocitySpike
  /\ MatchingFraudProfiles(hist.call.profiles, AllFraud) # {}
  /\ tickProfile = NilProfile

(***************************************************************************)
(* C20: the fraud branch falls back to the normal branch                   *)
(***************************************************************************)
\* no profile that passes the filter carries a wash, velocity or anomaly pattern
NoPatternToInject(profiles, fraudType) ==
  \A p \in MatchingFraudProfiles(profiles, fraudType) :
    p.FraudPattern \notin {WashTrade, VelocitySpike, Anomaly}

\* C20: when no fraud profile passes the filter, or the one selected carries no
\* wash, velocity or anomaly pattern, the tick hands one trade to publish, built
\* for a profile chosen by the category weights, tagged as not fraud, and returns
\* no error of its own
C20_FallsBackToNormalTrade ==
  (pc = "generateFraudPattern"
   /\ NoPatternToInject(hist.call.profiles, hist.call.fraudType))
    => /\ ~tickErr
       /\ ~tickFraud
       /\ Len(trades) = 1
       /\ trades[1].UserID = tickProfile.UserID
       /\ trades[1].Timestamp = now
       /\ tickProfile \in ProfilesOf(hist.call.profiles)
       /\ HasEachCategory(hist.call.profiles)
            => tickProfile.Type = CategoryOfDraw(hist.call.r, hist.call.ratios)

\* the filter Velocity on a catalog without a velocity trader: one Casual trade
C20_Witness ==
  /\ pc = "generateFraudPattern"
  /\ hist.call.fraudType = VelocitySpike
  /\ MatchingFraudProfiles(hist.call.profiles, VelocitySpike) = {}
  /\ MatchingFraudProfiles(hist.call.profiles, AllFraud) # {}
  /\ ~tickFraud /\ ~tickErr /\ Len(trades) = 1
  /\ tickProfile.Type = CasualTrader

\* the selected fraud profile carries no pattern: one normal trade
C20_WitnessPatternless ==
  /\ pc = "generateFraudPattern"
  /\ PatternlessFraudProfile \in MatchingFraudProfiles(hist.call.profiles, AllFraud)
  /\ hist.call.fraudType = AllFraud
  /\ ~tickFraud /\ ~tickErr /\ Len(trades) = 1

(***************************************************************************)
(* C21: the empty bucket and the empty catalog                             *)
(***************************************************************************)
\* the bucket the draw of the call falls to has no profile in the call's catalog
BucketEmpty ==
  CategoryOfDraw(hist.call.r, hist.call.ratios) \notin ProfileTypes(hist.call.profiles)

\* C21: when the bucket of SelectProfile's draw is empty the result is the element
\* of the whole catalog the second draw points at, of whatever category;
\* SelectProfile returns no profile exactly when the catalog is empty, and then
\* generateNormalTrade returns an error with no trade to publish or record
C21_EmptyBucketFallsBackToCatalog ==
  /\ (pc = "SelectProfile" /\ BucketEmpty /\ hist.call.profiles # << >>)
       => tickProfile
            = hist.call.profiles[(hist.call.raw % Len(hist.call.profiles)) + 1]
  /\ pc = "SelectProfile" => (tickProfile = NilProfile <=> hist.call.profiles = << >>)
  /\ pc = "generateNormalTrade"
       => /\ tickErr <=> hist.call.profiles = << >>
          /\ tickErr => (trades = << >> /\ tickProfile = NilProfile /\ ~tickFraud)
          /\ ~tickErr => Len(trades) = 1

\* the draw falls to the HFT bucket of a catalog without HFT profiles and the
\* fallback returns a Fraud-category profile
C21_Witness ==
  /\ pc = "SelectProfile" /\ BucketEmpty
  /\ CategoryOfDraw(hist.call.r, hist.call.ratios) = HFTTrader
  /\ tickProfile.Type = FraudTrader

\* the normal branch on the empty catalog
C21_WitnessEmptyCatalog ==
  pc = "generateNormalTrade" /\ hist.call.profiles = << >> /\ tickErr /\ trades = << >>

(***************************************************************************)
(* C22: a failed publish is skipped, not retried and not counted           *)
(***************************************************************************)
\* C22: within a tick the trades handed to publish are the first pubIdx ones, each
\* handed once (the publishes that succeeded plus the one that failed); a publish
\* that returns an error leaves all of the statistics as they were, and nothing is
\* published or recorded in the rest of that tick
C22_FailedPublishSkipped ==
  /\ [](InTick => pubIdx = PublishedThisTick + (IF tickErr THEN 1 ELSE 0))
  /\ [][hist'.failed # hist.failed
          => (stats' = stats /\ pubIdx' = pubIdx + 1 /\ tickErr' /\ pc' = "publish")]_vars
  /\ [][tickErr
          => /\ stats' = stats
             /\ hist'.published = hist.published /\ hist'.failed = hist.failed
             /\ pc' = "publish" => pubIdx' = pubIdx]_vars
  /\ [][(InTick /\ trades' = trades) => pubIdx' >= pubIdx]_vars

\* the Sell leg of a wash pair has failed: the Buy leg is the only trade counted
C22_Witness ==
  /\ pc = "publish" /\ tickErr /\ tickFraud
  /\ Len(trades) = 2 /\ pubIdx = 2
  /\ stats.TotalTrades = hist.total0 + 1
  /\ stats.FraudPatterns = hist.fraud0 + 1

(***************************************************************************)
(* C23: the off-catalog-symbol variant of the anomaly                      *)
(***************************************************************************)
\* the elements of a symbol list
SymbolsOf(symbols) == { symbols[i] : i \in DOMAIN symbols }

\* lo <= price < hi, all in cents
PriceWithin(p, lo, hi) ==
  LET f == RatProduct(p.factors)
  IN  lo * f.d <= p.cents * f.n /\ p.cents * f.n < hi * f.d

PennyVariantOffList ==
  (pc = "InjectAnomaly" /\ hist.anomalyType = 2)
    => /\ trades[1].Symbol \in SymbolsOf(PennyStocks)
       /\ tickProfile.UserID # "FRAUD_WASH_001"
            => trades[1].Symbol \notin SymbolsOf(tickProfile.TypicalSymbols)
       /\ PriceWithin(trades[1].Price, 50, 550)

(***************************************************************************)
(* C24: the price variant of the anomaly                                   *)
(***************************************************************************)
\* lo <= r <= hi for rationals
RatBetween(r, lo, hi) == RatLeq(lo, r) /\ RatLeq(r, hi)

\* the trade of the price variant carries a symbol and an amount as a normal trade
\* of the profile does
NormalSymbolAndAmount ==
  /\ trades[1].Symbol \in DrawableSymbols(tickProfile)
  /\ 10 * trades[1].Amount >= tickProfile.AvgTradeSize
  /\ trades[1].Amount <= 3 * tickProfile.AvgTradeSize

\* C24 as stated: in the anomaly's price variant (variant 3) symbol and amount are
\* those of a normal trade and the price is in [0.75 x base, 1.25 x base], base
\* being the symbol's entry in the price table (100.0 for an unknown symbol)
C24_PriceWithinQuarterOfTable ==
  (pc = "InjectAnomaly" /\ hist.anomalyType = 3)
    => /\ NormalSymbolAndAmount
       /\ RatBetween(PriceRatio(trades[1].Price, TablePrice(trades[1].Symbol)),
                     Rat(3, 4), Rat(5, 4))

\* C24 amended: in the anomaly's price variant symbol and amount are those of a
\* normal trade and the price deviates by a factor within [-25%, +25%] from the
\* symbol's normal price, which is its table entry varied by up to 1%; against the
\* table entry itself the price is in [0.7425 x base, 1.2625 x base]
C24_PriceWithinQuarterOfNormalPrice ==
  (pc = "InjectAnomaly" /\ hist.anomalyType = 3)
    => LET price == trades[1].Price
           base == TablePrice(trades[1].Symbol)
       IN  /\ NormalSymbolAndAmount
           /\ price.cents = base.cents /\ Len(price.factors) = 2
           /\ RatBetween(price.factors[1], Rat(99, 100), Rat(101, 100))
           /\ RatBetween(price.factors[2], Rat(3, 4), Rat(5, 4))
           /\ RatBetween(PriceRatio(price, base), Rat(7425, 10000), Rat(12625, 10000))

\* a price 25% under a normal price that is itself 1% under the table entry
C24_Witness ==
  /\ pc = "InjectAnomaly" /\ hist.anomalyType = 3
  /\ PriceRatio(trades[1].Price, TablePrice(trades[1].Symbol)) = Rat(297, 400)

(***************************************************************************)
(* C25: trades reach the sink in generation order                          *)
(***************************************************************************)
\* the trades of a pattern stand in generation order: a wash pair is Buy then
\* Sell, and timestamps of a wash pair or a burst increase along the sequence
InSequenceOrder ==
  /\ (tickFraud /\ tickProfile.FraudPattern = WashTrade)
       => (trades[1].Type = TradeTypeBuy /\ trades[2].Type = TradeTypeSell)
  /\ (tickFraud /\ tickProfile.FraudPattern \in {WashTrade, VelocitySpike})
       => \A k \in 1..(Len(trades) - 1) : trades[k].Timestamp < trades[k + 1].Timestamp

\* C25: the sink accepts the trades of a tick one at a time in sequence order:
\* the trade it accepts is the next of the sequence, all earlier ones having been
\* accepted and recorded (Buy leg before Sell leg, a burst by increasing
\* timestamp); the next tick's trades are generated only after the loop is back
\* at its select with every publish of the tick over
C25_PublishedInGenerationOrder ==
  /\ [](InTick => InSequenceOrder)
  /\ [][hist'.published # hist.published
          => /\ pc = "publish" /\ pc' = "updateStats"
             /\ hist'.published = hist.published + 1
             /\ trades' = trades
             /\ pubIdx = PublishedThisTick /\ pubIdx' = pubIdx + 1
             /\ stats.TotalTrades = hist.published]_vars
  /\ [][trades' # trades
          => \/ trades = << >> /\ pc = "select" /\ pc' = "publish"
             \/ trades' = << >> /\ TickEnd /\ pc' = "select"]_vars

\* the Sell leg of a wash pair is accepted after its Buy leg was
C25_Witness ==
  /\ pc = "updateStats" /\ tickFraud /\ tickProfile.FraudPattern = WashTrade
  /\ pubIdx = 2 /\ PublishedThisTick = 2
  /\ trades[1].Type = TradeTypeBuy /\ trades[2].Type = TradeTypeSell

\* the fifth trade of a burst is accepted, the four before it having been
C25_WitnessBurst ==
  /\ pc = "updateStats" /\ tickFraud /\ tickProfile.FraudPattern = VelocitySpike
  /\ pubIdx = 5 /\ PublishedThisTick = 5

(***************************************************************************)
(* C26: the reporter and the loop observe the cancellation                 *)
(***************************************************************************)
\* C26, its first part: once cancellation is requested the reporter takes the
\* ticker case of its select at most once more, for a wake that was pending, and
\* exits at its next wake
C26_ReporterExitsAtNextWake == hist.wakesAfterCancel <= 1

\* C26, its second part: under fair scheduling a requested cancellation leads to
\* the end of both the reporter and the generation loop
ReporterAndLoopTerminate ==
  cancelled ~> (rep.pc \in {"exited", "dead"} /\ EngineState = "Stopped")


\* the volume counter is the sum of the recorded trades' truncated volumes
VolumeIsTruncatedSum == stats.VolumeGenerated = hist.volumeSum

\* recording a trade does not lower the volume counter
VolumeNeverDecreases ==
  [][~BigLess(stats'.VolumeGenerated, stats.VolumeGenerated)]_vars

\* C27 as stated: the cumulative volume never decreases, and after any sequence of
\* recorded trades it equals the sum over those trades of floor(amount x price x
\* 100), each trade truncated on its own.
C27_VolumeIsSumAndNeverDecreases ==
  [](pc = "updateStats" => VolumeIsTruncatedSum) /\ VolumeNeverDecreases

\* C27, amended: as long as that sum stays below 2^64 the counter equals it, and
\* a trade that keeps the sum below 2^64 does not lower the counter: the counter
\* is an unsigned 64-bit integer and holds the sum modulo 2^64.
C27_VolumeIsSumBelowTwoTo64 ==
  /\ [](pc = "updateStats" =>
         /\ BigLess(stats.VolumeGenerated, TwoTo64)
         /\ (BigLess(hist.volumeSum, TwoTo64) => VolumeIsTruncatedSum)
         /\ (~BigLess(hist.volumeSum, TwoTo64) =>
               stats.VolumeGenerated = BigSub(hist.volumeSum, TwoTo64)))
  /\ [][BigLess(hist'.volumeSum, TwoTo64) =>
          ~BigLess(stats'.VolumeGenerated, stats.VolumeGenerated)]_vars

\* two trades are recorded, the later one with a fraction of a cent cut off, and the
\* sum is below 2^64
C27_Witness ==
  /\ pc = "updateStats"
  /\ hist.recorded = 2
  /\ BigLess(hist.volumeSum, TwoTo64)
  /\ stats.VolumeGenerated # << >>
  /\ LET trade == trades[1]
         f == RatProduct(trade.Price.factors)
     IN  BigMul(FloorCents(trade), f.d) #
           BigMul(BigMul(BigOf(trade.Amount), trade.Price.cents), f.n)

\* the sum has passed 2^64
C27_WitnessWrapped ==
  pc = "updateStats" /\ ~BigLess(hist.volumeSum, TwoTo64)

\* C28 as stated: in every interleaving of the reporter's two loads with the
\* loop's increments, the fraud count of a statistics line is at most its trade
\* count.
C28_FraudCountAtMostTradeCount == rep.pc = "print" => rep.fraud <= rep.total

\* C28, amended: the fraud count of a statistics line is at most the trade count
\* at the moment the fraud count is read, and the line's trade count is the older
\* of the two values; the fraud count may exceed it by the trades recorded
\* between the two loads.
C28_FraudCountAtMostTradesWhenRead ==
  [][rep.pc = "loadFraud" /\ rep'.pc = "print" =>
       /\ rep'.fraud <= stats.TotalTrades
       /\ rep'.total <= stats.TotalTrades]_vars

\* a line whose fraud count is above its trade count is about to be printed
C28_Witness == rep.pc = "print" /\ rep.fraud > rep.total

\* C29: no periodic statistics line is printed once the final report has begun,
\* whether the run ends at its deadline (no signal raised) or by cancellation.
C29_NoLineAfterFinalReport == ~hist.lateLine

\* the deadline path alone: no line after the final report while no cancellation
\* has been requested (ctx is cancelled only when runGenerate returns)
NoLineAfterFinalReportAtDeadline == ~(hist.lateLine /\ ~cancelled)

\* each ratio is in [0, 1] and the three sum to 1.0 (hundredths)
ValidRatios(c) ==
  /\ c.HFTRatio \in 0..100 /\ c.RegularRatio \in 0..100 /\ c.CasualRatio \in 0..100
  /\ c.HFTRatio + c.RegularRatio + c.CasualRatio = 100

\* C30: a configuration whose three ratios are each in [0, 1] and sum to 1.0, a
\* ratio of exactly 0 included (tps and fraud rate being in range), loads, and the
\* ratios the engine selects profiles with are the configured ones.
C30_ValidRatiosLoadUnchanged ==
  (pc # "LoadConfig" /\ ValidRatios(raw) /\ raw.TPS \in 1..10000
     /\ raw.FraudRate \in 0..100)
    => /\ pc # "configError"
       /\ cfg.HFTRatio = raw.HFTRatio
       /\ cfg.RegularRatio = raw.RegularRatio
       /\ cfg.CasualRatio = raw.CasualRatio

\* the same for configurations none of whose ratios is 0
NonZeroValidRatiosLoadUnchanged ==
  (pc # "LoadConfig" /\ ValidRatios(raw) /\ raw.TPS \in 1..10000
     /\ raw.FraudRate \in 0..100
     /\ raw.HFTRatio # 0 /\ raw.RegularRatio # 0 /\ raw.CasualRatio # 0)
    => /\ pc # "configError"
       /\ cfg.HFTRatio = raw.HFTRatio
       /\ cfg.RegularRatio = raw.RegularRatio
       /\ cfg.CasualRatio = raw.CasualRatio

\* the per-category counter of the Fraud category, 0 before Run creates it
FraudCategoryCount ==
  IF FraudTrader \in DOMAIN stats.ByProfile THEN stats.ByProfile[FraudTrader] ELSE 0

\* C31: with the default catalog, between two ticks the fraud counter equals the
\* per-category counter of the Fraud category and is at most the total-trade
\* counter; a trade being recorded is tagged as fraud exactly if its profile is
\* of the Fraud category.
C31_FraudCountIsFraudCategoryCount ==
  /\ (pc = "select" =>
        /\ stats.FraudPatterns = FraudCategoryCount
        /\ stats.FraudPatterns <= stats.TotalTrades)
  /\ (pc \in {"updateStats", "updateRest"} =>
        (tickFraud <=> tickProfile.Type = FraudTrader))

\* between two ticks, after trades of a fraud profile and of an ordinary profile
\* have been recorded
C31_Witness ==
  /\ pc = "select"
  /\ stats.FraudPatterns > 0
  /\ stats.FraudPatterns < stats.TotalTrades
  /\ stats.FraudPatterns = FraudCategoryCount

\* the filter generateFraudPattern passes to SelectFraudProfile at every tick
FraudTypeApplied == ParseFraudType(cfg.FraudType)

\* C32: the fraud-type filter applied is one of All, Wash, Velocity, Anomaly; the
\* strings WASH, VELOCITY and ANOMALY give their pattern; any other string gives
\* All and is not a reason for loading to fail; a fraud trade recorded under a
\* filter other than All is of a profile of that pattern.
C32_UnknownFraudTypeIsAll ==
  pc # "LoadConfig" =>
    /\ FraudTypeApplied \in {AllFraud, WashTrade, VelocitySpike, Anomaly}
    /\ (cfg.FraudType = "WASH" => FraudTypeApplied = WashTrade)
    /\ (cfg.FraudType = "VELOCITY" => FraudTypeApplied = VelocitySpike)
    /\ (cfg.FraudType = "ANOMALY" => FraudTypeApplied = Anomaly)
    /\ (cfg.FraudType \notin {"WASH", "VELOCITY", "ANOMALY"} => FraudTypeApplied = AllFraud)
    /\ (pc = "configError" <=> OutOfRange(cfg))
    /\ (pc \in {"updateStats", "updateRest"} /\ tickFraud /\ FraudTypeApplied # AllFraud
          => tickProfile.FraudPattern = FraudTypeApplied)

\* under the fraud type "wash" a trade of the anomaly trader is being recorded
C32_Witness ==
  /\ raw.FraudType = "wash"
  /\ pc = "updateStats"
  /\ tickFraud
  /\ tickProfile.FraudPattern = Anomaly

\* under the fraud type "ANOMALY" a trade of the anomaly trader is being recorded
C32_WitnessAnomaly ==
  /\ raw.FraudType = "ANOMALY"
  /\ pc = "updateStats"
  /\ tickFraud
  /\ tickProfile.FraudPattern = Anomaly
====
